---- MODULE Spec2Model ----
(***************************************************************************)
(* Model of redact-data: the Data/DataPath model (src/src/data.rs), the    *)
(* redis-backed DataCacher (src/src/cache/redis.rs), the mongodb-backed    *)
(* DataStorer (src/src/storage/mongodb.rs) and the cache-aside decorator   *)
(* CachedDataStorer (src/src/storage.rs).                                  *)
(*                                                                         *)
(* Strings are sequences of one-character strings.  Every `.await` of the  *)
(* decorator is one atomic step of a call, so concurrent calls interleave  *)
(* exactly at the points where the async code can be suspended.            *)
(***************************************************************************)
EXTENDS Integers, Sequences, FiniteSets, TLC

\* ------------------------------------------------------------------ bounds
\* number of decorator calls (tasks) sharing one CachedDataStorer
NumCalls == 2
\* number of distinct DataValues a caller may store
NumVals == 2
\* the cacher's cache_default_key_expiration_seconds (configuration value)
DefaultExp == 2
\* longest input string a caller passes to a DataPath or Data constructor
MaxLen == 4
\* most DataValues in a deserialized DataValueCollection
MaxValues == 2
\* number of operations made on a DataStorer used on its own
MaxOps == 3
\* most Arcs wrapped around one storer or cacher
MaxArcs == 2

Calls == 1 .. NumCalls
Vals == 1 .. NumVals

\* ------------------------------------------------------------- data model
\* validate_path wrapping every input in periods, whatever its ends are
validate_pathAlwaysWrap(path) == <<".">> \o path \o <<".">>

\* validate_path with the two one-sided branches exchanged
validate_pathSwapped(path) ==
    IF path = <<>>
    THEN <<".">>
    ELSE LET fc == Head(path)
             rest == Tail(path)
         IN  IF rest # <<>>
             THEN LET lc == rest[Len(rest)]
                  IN  IF fc # "." /\ lc # "."
                      THEN <<".">> \o path \o <<".">>
                      ELSE IF fc = "." /\ lc = "."
                      THEN path
                      ELSE IF fc # "."
                      THEN path \o <<".">>
                      ELSE <<".">> \o path
             ELSE IF fc = "."
                  THEN path
                  ELSE <<".">> \o path \o <<".">>

\* DataPath::validate_path
validate_path(path) ==
    IF path = <<>>
    THEN <<".">>
    ELSE LET fc == Head(path)
             rest == Tail(path)
         IN  IF rest # <<>>
             THEN LET lc == rest[Len(rest)]
                  IN  IF fc # "." /\ lc # "."
                      THEN <<".">> \o path \o <<".">>
                      ELSE IF fc = "." /\ lc = "."
                      THEN path
                      ELSE IF fc # "."
                      THEN <<".">> \o path
                      ELSE path \o <<".">>
             ELSE IF fc = "."
                  THEN path
                  ELSE <<".">> \o path \o <<".">>

\* DataPath::new
DataPathNew(path) == validate_path(path)

\* From<&str> for DataPath
DataPathFromStr(path) == DataPathNew(path)

\* From<String> keeping the string as given
DataPathFromStringUnvalidated(path) == path

\* From<String> for DataPath
DataPathFromString(path) == DataPathFromStr(path)

\* Display for DataPath and From<DataPath> for String
DataPathToString(dp) == dp

\* DataPath::default (derived): the empty string, not validated
DataPathDefault == <<>>

\* Option<Vec<String>>: None is the empty sequence, Some(keys) is <<keys>>
None == <<>>

\* DataValueCollection::default (derived): no values
DataValueCollectionDefault == <<>>

\* Data::new dropping the value it is given
DataNewNoValue(path, value, encryptedby) ==
    [path |-> DataPathFromStr(path), value |-> <<>>, encryptedby |-> encryptedby]

\* Data::new: a path, a one-element DataValueCollection and the key names
DataNew(path, value, encryptedby) ==
    [path |-> DataPathFromStr(path), value |-> <<value>>, encryptedby |-> encryptedby]

\* Data::default (derived)
DataDefault ==
    [path |-> DataPathDefault, value |-> DataValueCollectionDefault, encryptedby |-> None]

\* Data::path
DataPathOf(d) == DataPathToString(d.path)

\* the absence of a Data (Option::None, no document, or no value in a
\* result): it is no Data and no serialized Data, its path being no string of
\* characters
NoData == [path |-> <<"none">>, value |-> <<>>, encryptedby |-> None]

\* Serialize for Data (serde_json::to_string): the path goes out as a String
\* (serde into = "String"), the other fields as they are
DataSerialize(d) ==
    [path |-> DataPathToString(d.path), value |-> d.value, encryptedby |-> d.encryptedby]

\* Deserialize for Data (serde_json::from_str) of an object that has the path
\* field: the path comes in through From<String> (serde from = "String"), a
\* missing value field is the default collection (serde default)
DataDeserialize(json, hasvalue) ==
    [path |-> DataPathFromString(json.path),
     value |-> IF hasvalue THEN json.value ELSE DataValueCollectionDefault,
     encryptedby |-> json.encryptedby]

\* ToRedisArgs for Data
write_redis_args(d) == DataSerialize(d)

\* FromRedisValue for Data
from_redis_value(v) == DataDeserialize(v, TRUE)

\* path strings callers pass to get and to Data::new
RawPaths == { <<"a">>, <<".", "a", ".">> }

\* the Data values callers build with Data::new
DataSet == { DataNew(p, v, None) : p \in RawPaths, v \in Vals }

\* keys of the store and of the cache
Keys == RawPaths \cup { DataPathOf(d) : d \in DataSet }

\* ------------------------------------------------------------ DataValue
\* the outcome of to_string(): the text, or a panic because the Display
\* implementation returned an error
Shown(s) == [ok |-> TRUE, s |-> s]
ShownError == [ok |-> FALSE, s |-> <<>>]

\* the decimal digit d as a character
Digit(d) == <<"0", "1", "2", "3", "4", "5", "6", "7", "8", "9">>[d + 1]

\* Display for an unsigned integer: its decimal digits, most significant first
RECURSIVE Digits(_)
Digits(n) == IF n < 10 THEN <<Digit(n)>> ELSE Digits(n \div 10) \o <<Digit(n % 10)>>

\* Display for a signed integer
SignedDigits(n) == IF n < 0 THEN <<"-">> \o Digits(0 - n) ELSE Digits(n)

\* Display for bool
BoolToString(b) == IF b THEN <<"t", "r", "u", "e">> ELSE <<"f", "a", "l", "s", "e">>

\* an f64 with a finite decimal expansion: sign, whole part and the digits
\* after the point (none for a whole number, no trailing zero)
F64(neg, whole, frac) == [neg |-> neg, whole |-> whole, frac |-> frac]

\* Display for f64: the sign, the whole part, and the fraction if there is one
F64ToString(x) ==
    (IF x.neg THEN <<"-">> ELSE <<>>)
        \o Digits(x.whole)
        \o (IF x.frac = <<>> THEN <<>> ELSE <<".">> \o [i \in DOMAIN x.frac |-> Digit(x.frac[i])])

\* Display for DataType with the names capitalized as the variants are
DataTypeToStringCapitalized(t) ==
    CASE t = "Bool" -> <<"B", "o", "o", "l">>
      [] t = "U64" -> <<"U", "6", "4">>
      [] t = "I64" -> <<"I", "6", "4">>
      [] t = "F64" -> <<"F", "6", "4">>
      [] t = "String" -> <<"S", "t", "r", "i", "n", "g">>

\* Display for DataType
DataTypeToString(t) ==
    CASE t = "Bool" -> <<"b", "o", "o", "l">>
      [] t = "U64" -> <<"u", "6", "4">>
      [] t = "I64" -> <<"i", "6", "4">>
      [] t = "F64" -> <<"f", "6", "4">>
      [] t = "String" -> <<"s", "t", "r", "i", "n", "g">>

\* DataValue::Unencrypted(UnencryptedDataValue::..): the variant and its
\* payload, which is in the field of the variant's type
UnencryptedBool(b) ==
    [tag |-> "Unencrypted", variant |-> "Bool", b |-> b, n |-> 0,
     x |-> F64(FALSE, 0, <<>>), s |-> <<>>]
UnencryptedU64(n) ==
    [tag |-> "Unencrypted", variant |-> "U64", b |-> FALSE, n |-> n,
     x |-> F64(FALSE, 0, <<>>), s |-> <<>>]
UnencryptedI64(n) ==
    [tag |-> "Unencrypted", variant |-> "I64", b |-> FALSE, n |-> n,
     x |-> F64(FALSE, 0, <<>>), s |-> <<>>]
UnencryptedF64(x) ==
    [tag |-> "Unencrypted", variant |-> "F64", b |-> FALSE, n |-> 0,
     x |-> x, s |-> <<>>]
UnencryptedString(s) ==
    [tag |-> "Unencrypted", variant |-> "String", b |-> FALSE, n |-> 0,
     x |-> F64(FALSE, 0, <<>>), s |-> s]

\* DataValue::Encrypted(EncryptedDataValue { value, datatype, keyname })
Encrypted(value, datatype, keyname) ==
    [tag |-> "Encrypted", value |-> value, datatype |-> datatype, keyname |-> keyname]

\* Display for UnencryptedDataValue
UnencryptedToString(u) ==
    CASE u.variant = "Bool" -> BoolToString(u.b)
      [] u.variant = "U64" -> Digits(u.n)
      [] u.variant = "I64" -> SignedDigits(u.n)
      [] u.variant = "F64" -> F64ToString(u.x)
      [] u.variant = "String" -> u.s

\* the character of a one-byte UTF-8 sequence, for the bytes in use
Utf8Char(b) ==
    CASE b = 101 -> "e"
      [] b = 104 -> "h"
      [] b = 108 -> "l"
      [] b = 111 -> "o"
      [] b = 118 -> "v"

\* String::from_utf8 on bytes that are ASCII or the lone byte 0xFF, which is
\* never valid UTF-8
from_utf8(bytes) ==
    IF \E i \in DOMAIN bytes : bytes[i] >= 128
    THEN ShownError
    ELSE Shown([i \in DOMAIN bytes |-> Utf8Char(bytes[i])])

\* Display for EncryptedDataValue
EncryptedToString(e) ==
    IF ~from_utf8(e.value).ok
    THEN ShownError
    ELSE Shown(<<"e", "n", "c", "r", "y", "p", "t", "e", "d", "(", "k", "e", "y", ":", " ", "\"">> \o e.keyname
               \o <<"\"", ",", " ", "t", "y", "p", "e", ":", " ", "\"">> \o DataTypeToString(e.datatype)
               \o <<"\"", ",", " ", "v", "a", "l", "u", "e", ":", " ", "\"">> \o from_utf8(e.value).s
               \o <<"\"", ")">>)

\* Display for DataValue, through to_string()
DataValueToString(dv) ==
    IF dv.tag = "Encrypted"
    THEN EncryptedToString(dv)
    ELSE Shown(UnencryptedToString(dv))

\* Display for DataValueCollection with a comma between the values
RECURSIVE DataValueCollectionToStringSeparated(_)
DataValueCollectionToStringSeparated(vs) ==
    IF vs = <<>>
    THEN Shown(<<>>)
    ELSE LET h == DataValueToString(Head(vs))
             t == DataValueCollectionToStringSeparated(Tail(vs))
         IN  IF ~h.ok \/ ~t.ok
             THEN ShownError
             ELSE Shown(h.s \o (IF Tail(vs) = <<>> THEN <<>> ELSE <<",">>) \o t.s)

\* Display for DataValueCollection: try_for_each over the values, writing
\* each dv.to_string()
RECURSIVE DataValueCollectionToString(_)
DataValueCollectionToString(vs) ==
    IF vs = <<>>
    THEN Shown(<<>>)
    ELSE LET h == DataValueToString(Head(vs))
             t == DataValueCollectionToString(Tail(vs))
         IN  IF ~h.ok \/ ~t.ok
             THEN ShownError
             ELSE Shown(h.s \o t.s)

\* Display for Data
DataToString(d) == DataValueCollectionToString(d.value)

\* From<&str> for DataValue
DataValueFromStr(s) == UnencryptedString(s)

\* From<String> for DataValue
DataValueFromString(s) == UnencryptedString(s)

\* Default for DataValue
DataValueDefault == UnencryptedBool(FALSE)

\* the DataValues callers hold
DataValues ==
    { UnencryptedBool(b) : b \in BOOLEAN }
        \cup { UnencryptedU64(n) : n \in {0, 24} }
        \cup { UnencryptedI64(n) : n \in {0 - 1, 0 - 10} }
        \cup { UnencryptedF64(x) : x \in { F64(FALSE, 10, <<5, 2>>),
                                              F64(TRUE, 390, <<3, 2, 1>>) } }
        \cup { UnencryptedString(s) : s \in { <<"a", "b", "c">>, <<"t", "r", "u", "e">>, <<>> } }
        \cup { Encrypted(bytes, t, k) :
                  bytes \in { <<104, 101, 108, 108, 111>>, <<118>>, <<255>> },
                  t \in {"Bool", "U64", "I64", "F64", "String"},
                  k \in { <<"k">>, <<"s", "o", "m", "e", "k", "e", "y">> } }

\* ------------------------------------------------------------ error model
\* a value of Result<_, DataStorerError / CacheError>: ok, or the origin
\* (DataStorerError::CacheError / StorageError) and the kind (InternalError /
\* NotFound) of the error; val is the Data of an Ok(Data), b the bool of an
\* Ok(bool)
Ok(d, b) == [ok |-> TRUE, origin |-> "none", kind |-> "none", val |-> d, b |-> b]

\* CacheError::InternalError / CacheError::NotFound, before conversion
CacheErr(kind) == [ok |-> FALSE, origin |-> "cacher", kind |-> kind, val |-> NoData, b |-> FALSE]

\* DataStorerError::StorageError { source }
StorageErr(kind) == [ok |-> FALSE, origin |-> "storage", kind |-> kind, val |-> NoData, b |-> FALSE]

\* From<CacheError> for DataStorerError (also the map_err of get)
FromCacheError(e) == [e EXCEPT !.origin = "cache"]

\* the `?` operator tagging every error as a storage error
PropagateAsStorage(r) == [r EXCEPT !.origin = "storage"]

\* the `?` operator flattening every error to InternalError
PropagateAsInternal(r) ==
    IF r.origin = "cacher"
    THEN FromCacheError(r)
    ELSE [r EXCEPT !.kind = "InternalError"]

\* the `?` operator on a collaborator result inside the decorator
Propagate(r) == IF r.origin = "cacher" THEN FromCacheError(r) ELSE r

\* ------------------------------------------------------------- the cacher
\* a cache slot without an entry
NoEntry == [val |-> NoData, ttl |-> 0]

\* RedisDataCacher::get_default_key_expiration_seconds
get_default_key_expiration_seconds == DefaultExp

\* RedisDataCacher::exists
CacherExists(c, key, fail) ==
    IF fail THEN CacheErr("InternalError") ELSE Ok(NoData, c[key] # NoEntry)

\* RedisDataCacher::expire, the result
CacherExpire(c, key, seconds, fail) ==
    IF fail THEN CacheErr("InternalError") ELSE Ok(NoData, c[key] # NoEntry)

\* RedisDataCacher::expire that removes the key (an expire of zero seconds)
CacherExpireStateEvict(c, key, seconds, fail) ==
    IF fail \/ c[key] = NoEntry
    THEN c
    ELSE [c EXCEPT ![key] = NoEntry]

\* RedisDataCacher::expire that leaves the ttl as it is
CacherExpireStateKeep(c, key, seconds, fail) == c

\* RedisDataCacher::expire, the cache afterwards
CacherExpireState(c, key, seconds, fail) ==
    IF fail \/ c[key] = NoEntry
    THEN c
    ELSE [c EXCEPT ![key] = [@ EXCEPT !.ttl = seconds]]

\* RedisDataCacher::get: a missing key is a nil reply, which does not convert
\* to a Data, and every error is mapped to InternalError
CacherGet(c, key, fail) ==
    IF fail \/ c[key] = NoEntry
    THEN CacheErr("InternalError")
    ELSE Ok(from_redis_value(c[key].val), TRUE)

\* RedisDataCacher::set, the result
CacherSet(c, key, value, fail) ==
    IF fail THEN CacheErr("InternalError") ELSE Ok(NoData, TRUE)

\* RedisDataCacher::set that stores the path but loses the value field
CacherSetStatePartial(c, key, value, fail) ==
    IF fail
    THEN c
    ELSE [c EXCEPT ![key] = [val |-> [value EXCEPT !.value = <<>>],
                             ttl |-> get_default_key_expiration_seconds]]

\* RedisDataCacher::set that writes only when the key holds no entry (SET NX)
CacherSetStateIfAbsent(c, key, value, fail) ==
    IF fail \/ c[key].ttl > 0
    THEN c
    ELSE [c EXCEPT ![key] = [val |-> write_redis_args(value),
                             ttl |-> get_default_key_expiration_seconds]]

\* RedisDataCacher::set, the cache afterwards (set_ex with the default ttl)
CacherSetState(c, key, value, fail) ==
    IF fail
    THEN c
    ELSE [c EXCEPT ![key] = [val |-> write_redis_args(value),
                             ttl |-> get_default_key_expiration_seconds]]

\* ------------------------------------------------------------- the storer
\* MongoDataStorer::get: find_one by the literal path, the document found
\* being deserialized
StorerGet(s, path, fail) ==
    IF fail
    THEN StorageErr("InternalError")
    ELSE IF s[path] = NoData
    THEN StorageErr("NotFound")
    ELSE Ok(DataDeserialize(s[path], TRUE), TRUE)

\* MongoDataStorer::create, the result
StorerCreate(s, data, fail) ==
    IF fail THEN StorageErr("InternalError") ELSE Ok(NoData, TRUE)

\* MongoDataStorer::create that acknowledges without writing
StorerCreateStateLost(s, data, fail) == s

\* MongoDataStorer::create as an insert: an existing record is kept
StorerCreateStateInsertOnly(s, data, fail) ==
    IF fail \/ s[DataPathOf(data)] # NoData
    THEN s
    ELSE [s EXCEPT ![DataPathOf(data)] = DataSerialize(data)]

\* MongoDataStorer::create, the store afterwards (replace_one with upsert of
\* the serialized Data)
StorerCreateState(s, data, fail) ==
    IF fail THEN s ELSE [s EXCEPT ![DataPathOf(data)] = DataSerialize(data)]

\* ------------------------------------------ the storers on their backends
\* the positions of the documents whose path field is the string path
Matching(ds, path) == { i \in DOMAIN ds : ds[i].path = path }

\* the first position of a non-empty set of positions
First(I) == CHOOSE i \in I : \A j \in I : i <= j

\* find_one: the first matching document, if any
find_one(ds, path) ==
    IF Matching(ds, path) = {} THEN NoData ELSE ds[First(Matching(ds, path))]

\* replace_one with upsert(true): the first matching document is replaced; if
\* none matches the document is inserted
replace_one(ds, path, doc) ==
    IF Matching(ds, path) = {}
    THEN Append(ds, doc)
    ELSE [ds EXCEPT ![First(Matching(ds, path))] = doc]

\* MongoDataStorer::get on the documents ds
MongoGet(ds, path, fail) ==
    IF fail
    THEN StorageErr("InternalError")
    ELSE IF find_one(ds, path) = NoData
    THEN StorageErr("NotFound")
    ELSE Ok(DataDeserialize(find_one(ds, path), TRUE), TRUE)

\* MongoDataStorer::create, the result
MongoCreate(ds, data, fail) ==
    IF fail THEN StorageErr("InternalError") ELSE Ok(NoData, TRUE)

\* MongoDataStorer::create, the documents afterwards
MongoCreateDocs(ds, data, fail) ==
    IF fail THEN ds ELSE replace_one(ds, DataPathOf(data), DataSerialize(data))

\* the remote data service answering POST /data?path=..: it upserts the body
\* by path when it answers with a success status, and stores nothing when it
\* answers with an error status
ServerPost(ds, path, body, status) ==
    IF status = "success" THEN replace_one(ds, path, body) ELSE ds

\* the remote data service answering GET /data/path: the body is the record,
\* or no Data at all when there is none
ServerGet(ds, path) == find_one(ds, path)

\* RedactDataStorer::get: an error only when the request fails or the body
\* is not a Data
RedactGet(ds, path, fail) ==
    IF fail
    THEN StorageErr("InternalError")
    ELSE IF ServerGet(ds, path) = NoData
    THEN StorageErr("InternalError")
    ELSE Ok(DataDeserialize(ServerGet(ds, path), TRUE), TRUE)

\* RedactDataStorer::create, the result: Ok(true) for every response received,
\* whatever its status
RedactCreate(ds, data, fail, status) ==
    IF fail THEN StorageErr("InternalError") ELSE Ok(NoData, TRUE)

\* RedactDataStorer::create, the records of the service afterwards
RedactCreateDocs(ds, data, fail, status) ==
    IF fail THEN ds ELSE ServerPost(ds, DataPathOf(data), DataSerialize(data), status)

\* ------------------------------------------------------------------ state
VARIABLES
    store,      \* the backing store: key -> Data or NoData
    cache,      \* the cache: key -> entry (Data and remaining ttl) or NoEntry
    pc,         \* per call: the await the call is suspended at
    op,         \* per call: "none", "get" or "create"
    path,       \* per call: the path argument of get
    value,      \* per call: the Data argument of create
    res,        \* per call: the local `res` of get
    log,        \* per call: the collaborator calls made so far
    result,     \* per call: the value returned to the caller
    raw,        \* history: the last successful create and the get following it
    kept,       \* history: the entry a create's failed cache write left in the cache
    text,       \* a caller's input string
    stage,      \* what the caller has done with it: "input", "path", "again", "data", "back"
    how,        \* the constructor the caller used
    dpath,      \* the DataPath built from text
    again,      \* DataPath::new of dpath's string
    datum,      \* the Data built from text
    back,       \* datum as read back from the cache
    kind,       \* the DataStorer implementation in use: "mongo" or "redact"
    docs,       \* the backend's records, in insertion order
    latest,     \* per path: the Data of the last create that returned Ok
    got,        \* the last storer get: its path, its result, whether the backend failed
    nops,       \* number of storer or cacher operations made
    dvalue,     \* a DataValue a caller holds
    coll,       \* a DataValueCollection a caller holds
    shown,      \* the outcome of to_string() on dvalue, on coll or on a Data
    parsed,     \* DataValue::from of the text in shown
    phase,      \* what the caller has rendered: "value", "text", "collection", "data"
    depth,      \* how many Arcs wrap the storer or cacher a caller holds
    called,     \* the operation called on the outermost Arc, with its arguments
    inner,      \* the calls the wrapped object has received, in order
    returned    \* what the call on the Arc returned

\* the state of the decorator and of its calls
decoratorVars == <<store, cache, pc, op, path, value, res, log, result, raw, kept>>

\* the state of a caller building DataPath and Data values
dataVars == <<text, stage, how, dpath, again, datum, back>>

\* the state of a DataStorer used on its own
storerVars == <<kind, docs, latest, got, nops>>

\* the state of a caller rendering DataValues
valueVars == <<dvalue, coll, shown, parsed, phase>>

\* the state of a caller using an Arc-wrapped storer or cacher
arcVars == <<depth, called, inner, returned>>

\* what the decorator's steps leave alone
aside == <<dataVars, storerVars, valueVars, arcVars>>

vars == <<decoratorVars, dataVars, storerVars, valueVars, arcVars>>

\* one collaborator call, as recorded in log
Entry(call, key, val, secs, r) ==
    [call |-> call, key |-> key, val |-> val, secs |-> secs, ret |-> r]

\* the value of result while a call has not returned
NoResult == [ok |-> FALSE, origin |-> "none", kind |-> "none", val |-> NoData, b |-> FALSE]

\* no successful create is being followed
NoRaw == [d |-> NoData, g |-> -1]

\* no entry left by a failed cache write is being followed
NoKept == [old |-> NoData, rec |-> NoData, since |-> {}]

\* stores a Storer can hold: every record lies under its own path
ValidStores ==
    { s \in [Keys -> DataSet \cup {NoData}] :
        \A k \in Keys : s[k] # NoData => DataPathOf(s[k]) = k }

\* caches a Cacher can hold over the store s without any race having
\* happened: an entry is the record of its key, put there by an earlier get
\* or create, with some of its ttl left
ValidCaches(s) ==
    { c \in [Keys -> [val : DataSet, ttl : 1 .. DefaultExp] \cup {NoEntry}] :
        \A k \in Keys : c[k] # NoEntry => c[k].val = s[k] }

\* no caller is building values
DataIdle ==
    /\ text = <<>>
    /\ stage = "off"
    /\ how = "none"
    /\ dpath = <<>>
    /\ again = <<>>
    /\ datum = NoData
    /\ back = NoData

\* a get that has not been made
NoGot == [path |-> <<>>, ret |-> NoResult, failed |-> FALSE]

\* no DataStorer is used on its own
StorerIdle ==
    /\ kind = "none"
    /\ docs = <<>>
    /\ latest = <<>>
    /\ got = NoGot
    /\ nops = 0

\* no caller is rendering values
ValueIdle ==
    /\ dvalue = <<>>
    /\ coll = <<>>
    /\ shown = <<>>
    /\ parsed = <<>>
    /\ phase = "off"

\* no Arc-wrapped object is in use
ArcIdle ==
    /\ depth = 0
    /\ called = <<>>
    /\ inner = <<>>
    /\ returned = <<>>

\* CachedDataStorer::new over an existing storer and an existing cacher
Init ==
    /\ store \in ValidStores
    /\ cache \in ValidCaches(store)
    /\ pc = [c \in Calls |-> "idle"]
    /\ op = [c \in Calls |-> "none"]
    /\ path = [c \in Calls |-> <<>>]
    /\ value = [c \in Calls |-> NoData]
    /\ res = [c \in Calls |-> NoData]
    /\ log = [c \in Calls |-> <<>>]
    /\ result = [c \in Calls |-> NoResult]
    /\ raw = NoRaw
    /\ kept = NoKept
    /\ DataIdle
    /\ StorerIdle
    /\ ValueIdle
    /\ ArcIdle

\* history after a cache set under key: a set that succeeded has replaced the
\* entry that was followed
KeptAfterSet(key, ok) ==
    IF ok /\ kept.rec # NoData /\ DataPathOf(kept.rec) = key THEN NoKept ELSE kept

\* history after the cache set of the create of call c: a set that failed
\* over an entry leaves that entry (old) where the record just persisted
\* (rec) belongs; the calls not begun yet (since) come after it
KeptAfterCreate(c, ok) ==
    LET key == DataPathOf(value[c])
    IN  IF ok
        THEN KeptAfterSet(key, TRUE)
        ELSE IF cache[key] # NoEntry
        THEN [old |-> cache[key].val, rec |-> value[c],
              since |-> { x \in Calls : pc[x] = "idle" }]
        ELSE kept

\* history kept by a step of call c that is not the start of a get
RawStep(c) == IF raw.g = c THEN raw ELSE NoRaw

\* a call returns r to its caller
Return(c, r) ==
    /\ pc' = [pc EXCEPT ![c] = "done"]
    /\ result' = [result EXCEPT ![c] = r]

\* ------------------------------------------------- CachedDataStorer::get
\* get, lines 63 and 73, with the branches exchanged
AfterExistsSwapped(cache_hit) == IF cache_hit THEN "get_storer_get" ELSE "get_expire"

\* get, lines 63 and 73: if cache_hit { expire, get } else { storer get, set }
AfterExists(cache_hit) == IF cache_hit THEN "get_expire" ELSE "get_storer_get"

\* get, line 62 without the `?`: a failed exists is taken for a miss
GetExistsMissOnError(c, p, fail) ==
    /\ pc[c] = "idle"
    /\ LET r == CacherExists(cache, p, fail)
       IN  /\ op' = [op EXCEPT ![c] = "get"]
           /\ path' = [path EXCEPT ![c] = p]
           /\ log' = [log EXCEPT ![c] = <<Entry("cacher.exists", p, NoData, 0, r)>>]
           /\ pc' = [pc EXCEPT ![c] = AfterExists(r.ok /\ r.b)]
           /\ UNCHANGED result
    /\ raw' = IF raw.g = 0 /\ p = DataPathOf(raw.d)
              THEN [raw EXCEPT !.g = c]
              ELSE NoRaw
    /\ UNCHANGED <<store, cache, value, res, aside>>
    /\ UNCHANGED kept

\* get, line 62: self.cacher.exists(path).await?  and the branch on cache_hit
GetExists(c, p, fail) ==
    /\ pc[c] = "idle"
    /\ LET r == CacherExists(cache, p, fail)
       IN  /\ op' = [op EXCEPT ![c] = "get"]
           /\ path' = [path EXCEPT ![c] = p]
           /\ log' = [log EXCEPT ![c] = <<Entry("cacher.exists", p, NoData, 0, r)>>]
           /\ IF ~r.ok
              THEN Return(c, Propagate(r))
              ELSE /\ pc' = [pc EXCEPT ![c] = AfterExists(r.b)]
                   /\ UNCHANGED result
    /\ raw' = IF raw.g = 0 /\ p = DataPathOf(raw.d)
              THEN [raw EXCEPT !.g = c]
              ELSE NoRaw
    /\ UNCHANGED <<store, cache, value, res, aside>>
    /\ UNCHANGED kept

\* get, lines 64-67 acting on the boolean: when expire returns false the get
\* goes to the storer
GetExpireChecked(c, fail) ==
    /\ pc[c] = "get_expire"
    /\ LET secs == get_default_key_expiration_seconds
           r == CacherExpire(cache, path[c], secs, fail)
       IN  /\ cache' = CacherExpireState(cache, path[c], secs, fail)
           /\ log' = [log EXCEPT ![c] =
                        Append(@, Entry("cacher.expire", path[c], NoData, secs, r))]
           /\ IF ~r.ok
              THEN Return(c, Propagate(r))
              ELSE /\ pc' = [pc EXCEPT ![c] =
                                IF r.b THEN "get_cacher_get" ELSE "get_storer_get"]
                   /\ UNCHANGED result
    /\ raw' = RawStep(c)
    /\ UNCHANGED <<store, op, path, value, res, aside>>
    /\ UNCHANGED kept

\* get, lines 64-67: self.cacher.expire(path, default).await?
GetExpire(c, fail) ==
    /\ pc[c] = "get_expire"
    /\ LET secs == get_default_key_expiration_seconds
           r == CacherExpire(cache, path[c], secs, fail)
       IN  /\ cache' = CacherExpireState(cache, path[c], secs, fail)
           /\ log' = [log EXCEPT ![c] =
                        Append(@, Entry("cacher.expire", path[c], NoData, secs, r))]
           /\ IF ~r.ok
              THEN Return(c, Propagate(r))
              ELSE /\ pc' = [pc EXCEPT ![c] = "get_cacher_get"]
                   /\ UNCHANGED result
    /\ raw' = RawStep(c)
    /\ UNCHANGED <<store, op, path, value, res, aside>>
    /\ UNCHANGED kept

\* get, lines 68-72, falling back to the storer when the cacher's get fails
GetCacherGetFallback(c, fail) ==
    /\ pc[c] = "get_cacher_get"
    /\ LET r == CacherGet(cache, path[c], fail)
       IN  /\ log' = [log EXCEPT ![c] =
                        Append(@, Entry("cacher.get", path[c], NoData, 0, r))]
           /\ IF r.ok
              THEN Return(c, r)
              ELSE /\ pc' = [pc EXCEPT ![c] = "get_storer_get"]
                   /\ UNCHANGED result
    /\ raw' = RawStep(c)
    /\ UNCHANGED <<store, cache, op, path, value, res, aside>>
    /\ UNCHANGED kept

\* get, lines 68-72: self.cacher.get(path).await.map_err(..)
GetCacherGet(c, fail) ==
    /\ pc[c] = "get_cacher_get"
    /\ LET r == CacherGet(cache, path[c], fail)
       IN  /\ log' = [log EXCEPT ![c] =
                        Append(@, Entry("cacher.get", path[c], NoData, 0, r))]
           /\ Return(c, IF r.ok THEN r ELSE FromCacheError(r))
    /\ raw' = RawStep(c)
    /\ UNCHANGED <<store, cache, op, path, value, res, aside>>
    /\ UNCHANGED kept

\* get, lines 74-76 without line 75: the fetched value is returned uncached
GetStorerGetNoFill(c, fail) ==
    /\ pc[c] = "get_storer_get"
    /\ LET r == StorerGet(store, path[c], fail)
       IN  /\ log' = [log EXCEPT ![c] =
                        Append(@, Entry("storer.get", path[c], NoData, 0, r))]
           /\ Return(c, Propagate(r))
           /\ res' = [res EXCEPT ![c] = r.val]
    /\ raw' = RawStep(c)
    /\ UNCHANGED <<store, cache, op, path, value, aside>>
    /\ UNCHANGED kept

\* get, line 74: let res = self.storer.get(path).await?  where the storer's
\* get returned r
GetStorerGetReturned(c, r) ==
    /\ pc[c] = "get_storer_get"
    /\ log' = [log EXCEPT ![c] =
                 Append(@, Entry("storer.get", path[c], NoData, 0, r))]
    /\ IF ~r.ok
       THEN /\ Return(c, Propagate(r))
            /\ UNCHANGED res
       ELSE /\ pc' = [pc EXCEPT ![c] = "get_cacher_set"]
            /\ res' = [res EXCEPT ![c] = r.val]
            /\ UNCHANGED result
    /\ raw' = RawStep(c)
    /\ UNCHANGED <<store, cache, op, path, value, aside>>
    /\ UNCHANGED kept

\* get, line 74 over a storer whose get takes the record out of the store
\* (find_one_and_delete)
GetStorerGetTaking(c, fail) ==
    /\ pc[c] = "get_storer_get"
    /\ LET r == StorerGet(store, path[c], fail)
       IN  /\ log' = [log EXCEPT ![c] =
                        Append(@, Entry("storer.get", path[c], NoData, 0, r))]
           /\ store' = IF r.ok THEN [store EXCEPT ![path[c]] = NoData] ELSE store
           /\ IF ~r.ok
              THEN /\ Return(c, Propagate(r))
                   /\ UNCHANGED res
              ELSE /\ pc' = [pc EXCEPT ![c] = "get_cacher_set"]
                   /\ res' = [res EXCEPT ![c] = r.val]
                   /\ UNCHANGED result
    /\ raw' = RawStep(c)
    /\ UNCHANGED <<cache, op, path, value, aside>>
    /\ UNCHANGED kept

\* get, line 74 over a MongoDataStorer
GetStorerGet(c, fail) == GetStorerGetReturned(c, StorerGet(store, path[c], fail))

\* get, lines 75-76 without the `?`: the result of the set is dropped
GetCacherSetIgnored(c, fail) ==
    /\ pc[c] = "get_cacher_set"
    /\ LET r == CacherSet(cache, path[c], res[c], fail)
       IN  /\ cache' = CacherSetState(cache, path[c], res[c], fail)
           /\ log' = [log EXCEPT ![c] =
                        Append(@, Entry("cacher.set", path[c], res[c], 0, r))]
           /\ Return(c, Ok(res[c], TRUE))
    /\ raw' = RawStep(c)
    /\ UNCHANGED <<store, op, path, value, res, aside>>
    /\ kept' = KeptAfterSet(path[c], CacherSet(cache, path[c], res[c], fail).ok)

\* get, lines 75-76 with a set that writes only when the key holds no entry
GetCacherSetIfAbsent(c, fail) ==
    /\ pc[c] = "get_cacher_set"
    /\ LET r == CacherSet(cache, path[c], res[c], fail)
       IN  /\ cache' = IF cache[path[c]] = NoEntry
                        THEN CacherSetState(cache, path[c], res[c], fail)
                        ELSE cache
           /\ log' = [log EXCEPT ![c] =
                        Append(@, Entry("cacher.set", path[c], res[c], 0, r))]
           /\ Return(c, IF r.ok THEN Ok(res[c], TRUE) ELSE Propagate(r))
    /\ raw' = RawStep(c)
    /\ UNCHANGED <<store, op, path, value, res, aside>>
    /\ kept' = KeptAfterSet(path[c], CacherSet(cache, path[c], res[c], fail).ok)

\* get, lines 75-76: self.cacher.set(path, res.clone()).await?; Ok(res)
GetCacherSet(c, fail) ==
    /\ pc[c] = "get_cacher_set"
    /\ LET r == CacherSet(cache, path[c], res[c], fail)
       IN  /\ cache' = CacherSetState(cache, path[c], res[c], fail)
           /\ log' = [log EXCEPT ![c] =
                        Append(@, Entry("cacher.set", path[c], res[c], 0, r))]
           /\ Return(c, IF r.ok THEN Ok(res[c], TRUE) ELSE Propagate(r))
    /\ raw' = RawStep(c)
    /\ UNCHANGED <<store, op, path, value, res, aside>>
    /\ kept' = KeptAfterSet(path[c], CacherSet(cache, path[c], res[c], fail).ok)

\* ---------------------------------------------- CachedDataStorer::create
\* create, line 81, evicting the cached entry when the storer's create fails
CreateStorerCreateEvicting(c, d, fail) ==
    /\ pc[c] = "idle"
    /\ LET r == StorerCreate(store, d, fail)
       IN  /\ store' = StorerCreateState(store, d, fail)
           /\ op' = [op EXCEPT ![c] = "create"]
           /\ value' = [value EXCEPT ![c] = d]
           /\ log' = [log EXCEPT ![c] =
                        <<Entry("storer.create", DataPathOf(d), d, 0, r)>>]
           /\ IF ~r.ok
              THEN /\ Return(c, Propagate(r))
                   /\ cache' = [cache EXCEPT ![DataPathOf(d)] = NoEntry]
              ELSE /\ pc' = [pc EXCEPT ![c] = "create_cacher_set"]
                   /\ UNCHANGED <<result, cache>>
    /\ raw' = NoRaw
    /\ UNCHANGED <<path, res, aside>>
    /\ UNCHANGED kept

\* create, line 81 without the `?`: the storer's result is ignored
CreateStorerCreateUnchecked(c, d, fail) ==
    /\ pc[c] = "idle"
    /\ LET r == StorerCreate(store, d, fail)
       IN  /\ store' = StorerCreateState(store, d, fail)
           /\ op' = [op EXCEPT ![c] = "create"]
           /\ value' = [value EXCEPT ![c] = d]
           /\ log' = [log EXCEPT ![c] =
                        <<Entry("storer.create", DataPathOf(d), d, 0, r)>>]
           /\ pc' = [pc EXCEPT ![c] = "create_cacher_set"]
           /\ UNCHANGED result
    /\ raw' = NoRaw
    /\ UNCHANGED <<cache, path, res, aside>>
    /\ UNCHANGED kept

\* create, line 81 acting on the boolean: when the storer's create returns
\* Ok(false) the create returns false and writes nothing to the cache
CreateStorerCreateHonoured(c, d, r, s) ==
    /\ pc[c] = "idle"
    /\ store' = s
    /\ op' = [op EXCEPT ![c] = "create"]
    /\ value' = [value EXCEPT ![c] = d]
    /\ log' = [log EXCEPT ![c] = <<Entry("storer.create", DataPathOf(d), d, 0, r)>>]
    /\ IF ~r.ok
       THEN Return(c, Propagate(r))
       ELSE IF ~r.b
       THEN Return(c, Ok(NoData, FALSE))
       ELSE /\ pc' = [pc EXCEPT ![c] = "create_cacher_set"]
            /\ UNCHANGED result
    /\ raw' = NoRaw
    /\ UNCHANGED <<cache, path, res, aside>>
    /\ UNCHANGED kept

\* create, line 81: self.storer.create(value).await?  where the storer's
\* create returned r and left the store s
CreateStorerCreateReturned(c, d, r, s) ==
    /\ pc[c] = "idle"
    /\ store' = s
    /\ op' = [op EXCEPT ![c] = "create"]
    /\ value' = [value EXCEPT ![c] = d]
    /\ log' = [log EXCEPT ![c] = <<Entry("storer.create", DataPathOf(d), d, 0, r)>>]
    /\ IF ~r.ok
       THEN Return(c, Propagate(r))
       ELSE /\ pc' = [pc EXCEPT ![c] = "create_cacher_set"]
            /\ UNCHANGED result
    /\ raw' = NoRaw
    /\ UNCHANGED <<cache, path, res, aside>>
    /\ UNCHANGED kept

\* create, line 81 over a MongoDataStorer
CreateStorerCreate(c, d, fail) ==
    CreateStorerCreateReturned(c, d, StorerCreate(store, d, fail),
                               StorerCreateState(store, d, fail))

\* create, lines 82-83 invalidating the cache when the set fails: the entry
\* under the value's path is deleted before the error is returned
CreateCacherSetInvalidating(c, fail) ==
    /\ pc[c] = "create_cacher_set"
    /\ LET key == DataPathOf(value[c])
           r == CacherSet(cache, key, value[c], fail)
       IN  /\ cache' = IF r.ok
                        THEN CacherSetState(cache, key, value[c], fail)
                        ELSE [cache EXCEPT ![key] = NoEntry]
           /\ log' = [log EXCEPT ![c] =
                        Append(@, Entry("cacher.set", key, value[c], 0, r))]
           /\ Return(c, IF r.ok THEN Ok(NoData, TRUE) ELSE Propagate(r))
           /\ raw' = IF r.ok THEN [d |-> value[c], g |-> 0] ELSE NoRaw
    /\ UNCHANGED <<store, op, path, value, res, aside>>
    /\ kept' = KeptAfterCreate(c, CacherSet(cache, DataPathOf(value[c]), value[c], fail).ok)

\* create, lines 82-83: self.cacher.set(&value.path(), value.clone()).await?; Ok(true)
CreateCacherSet(c, fail) ==
    /\ pc[c] = "create_cacher_set"
    /\ LET key == DataPathOf(value[c])
           r == CacherSet(cache, key, value[c], fail)
       IN  /\ cache' = CacherSetState(cache, key, value[c], fail)
           /\ log' = [log EXCEPT ![c] =
                        Append(@, Entry("cacher.set", key, value[c], 0, r))]
           /\ Return(c, IF r.ok THEN Ok(NoData, TRUE) ELSE Propagate(r))
           /\ raw' = IF r.ok THEN [d |-> value[c], g |-> 0] ELSE NoRaw
    /\ UNCHANGED <<store, op, path, value, res, aside>>
    /\ kept' = KeptAfterCreate(c, CacherSet(cache, DataPathOf(value[c]), value[c], fail).ok)

\* ------------------------------------------------------------ environment
\* one second passes: every entry's ttl drops by one and an entry whose ttl
\* reaches zero is evicted by the cache server
Tick ==
    /\ \E k \in Keys : cache[k] # NoEntry
    /\ cache' = [k \in Keys |->
                    IF cache[k] = NoEntry \/ cache[k].ttl = 1
                    THEN NoEntry
                    ELSE [cache[k] EXCEPT !.ttl = @ - 1]]
    /\ raw' = NoRaw
    /\ UNCHANGED <<store, pc, op, path, value, res, log, result, aside>>
    /\ kept' = IF kept.rec # NoData /\ cache'[DataPathOf(kept.rec)] = NoEntry
               THEN NoKept
               ELSE kept

Next ==
    \/ \E c \in Calls, p \in RawPaths, fail \in BOOLEAN : GetExists(c, p, fail)
    \/ \E c \in Calls, fail \in BOOLEAN : GetExpire(c, fail)
    \/ \E c \in Calls, fail \in BOOLEAN : GetCacherGet(c, fail)
    \/ \E c \in Calls, fail \in BOOLEAN : GetStorerGet(c, fail)
    \/ \E c \in Calls, fail \in BOOLEAN : GetCacherSet(c, fail)
    \/ \E c \in Calls, d \in DataSet, fail \in BOOLEAN : CreateStorerCreate(c, d, fail)
    \/ \E c \in Calls, fail \in BOOLEAN : CreateCacherSet(c, fail)
    \/ Tick

\* caches a Cacher can hold over the store s after concurrent creates have
\* raced: an entry is a Data some create was given for its key, which need not
\* be the record the store holds now
RacedCaches(s) ==
    { c \in [Keys -> [val : DataSet, ttl : 1 .. DefaultExp] \cup {NoEntry}] :
        \A k \in Keys : c[k] # NoEntry =>
            /\ DataPathOf(c[k].val) = k
            /\ s[k] # NoData }

\* CachedDataStorer after earlier creates have raced, no call in flight
InitStale ==
    /\ store \in ValidStores
    /\ cache \in RacedCaches(store)
    /\ pc = [c \in Calls |-> "idle"]
    /\ op = [c \in Calls |-> "none"]
    /\ path = [c \in Calls |-> <<>>]
    /\ value = [c \in Calls |-> NoData]
    /\ res = [c \in Calls |-> NoData]
    /\ log = [c \in Calls |-> <<>>]
    /\ result = [c \in Calls |-> NoResult]
    /\ raw = NoRaw
    /\ kept = NoKept
    /\ DataIdle
    /\ StorerIdle
    /\ ValueIdle
    /\ ArcIdle

SpecStale == InitStale /\ [][Next]_vars

Spec == Init /\ [][Next]_vars

\* ------------------------------------------- building DataPath and Data
\* the characters of the input strings
Chars == {".", "a", "b"}

\* the input strings: every string over Chars of at most MaxLen characters
Strings == UNION { [1 .. n -> Chars] : n \in 0 .. MaxLen }

\* the DataValueCollections a serialized Data can carry
Collections == UNION { [1 .. n -> Vals] : n \in 0 .. MaxValues }

\* the encryptedby a Data can carry: None, Some([]) and Some(["k1"])
KeyLists == { None, << <<>> >>, << <<"k1">> >> }

\* no decorator call is made: an empty store and cache, every call idle
DecoratorIdle ==
    /\ store = [k \in Keys |-> NoData]
    /\ cache = [k \in Keys |-> NoEntry]
    /\ pc = [c \in Calls |-> "idle"]
    /\ op = [c \in Calls |-> "none"]
    /\ path = [c \in Calls |-> <<>>]
    /\ value = [c \in Calls |-> NoData]
    /\ res = [c \in Calls |-> NoData]
    /\ log = [c \in Calls |-> <<>>]
    /\ result = [c \in Calls |-> NoResult]
    /\ raw = NoRaw
    /\ kept = NoKept

\* a caller holding an input string
InitData ==
    /\ text \in Strings
    /\ stage = "input"
    /\ how = "none"
    /\ dpath = <<>>
    /\ again = <<>>
    /\ datum = NoData
    /\ back = NoData
    /\ DecoratorIdle
    /\ StorerIdle
    /\ ValueIdle
    /\ ArcIdle

\* the caller builds a DataPath with the constructor named name, giving dp
BuiltPath(name, dp) ==
    /\ stage = "input"
    /\ stage' = "path"
    /\ how' = name
    /\ dpath' = dp
    /\ UNCHANGED <<text, again, datum, back, decoratorVars, storerVars, valueVars, arcVars>>

\* DataPath::new(text)
PathNew == BuiltPath("DataPath::new", DataPathNew(text))

\* DataPath::from(&str)
PathFromStr == BuiltPath("From<&str>", DataPathFromStr(text))

\* DataPath::default()
PathDefault == BuiltPath("DataPath::default", DataPathDefault)

\* DataPath::from(String)
PathFromString == BuiltPath("From<String>", DataPathFromString(text))

\* a DataPath deserialized from the string text (serde from = "String")
PathDeserialize == BuiltPath("deserialize", DataPathFromString(text))

\* DataPath::new(dpath.to_string())
PathAgain ==
    /\ stage = "path"
    /\ stage' = "again"
    /\ again' = DataPathNew(DataPathToString(dpath))
    /\ UNCHANGED <<text, how, dpath, datum, back, decoratorVars, storerVars, valueVars, arcVars>>

\* the caller obtains a Data in the way named name, giving d
BuiltData(name, d) ==
    /\ stage = "input"
    /\ stage' = "data"
    /\ how' = name
    /\ datum' = d
    /\ UNCHANGED <<text, dpath, again, back, decoratorVars, storerVars, valueVars, arcVars>>

\* Data::new(text, value, encryptedby)
BuildDataNew(v, by) == BuiltData("Data::new", DataNew(text, v, by))

\* Data::default()
BuildDataDefault == BuiltData("Data::default", DataDefault)

\* a Data deserialized from an object with the path text, with or without the
\* value field
BuildDataDeserialize(vs, hasvalue, by) ==
    BuiltData(IF hasvalue THEN "deserialize" ELSE "deserialize without value",
              DataDeserialize([path |-> text, value |-> vs, encryptedby |-> by], hasvalue))

\* RedisDataCacher::set(text, datum) on an empty cache, then get(text)
CacheRoundTrip ==
    /\ stage = "data"
    /\ stage' = "back"
    /\ LET c0 == [k \in {text} |-> NoEntry]
           c1 == CacherSetState(c0, text, datum, FALSE)
       IN  back' = CacherGet(c1, text, FALSE).val
    /\ UNCHANGED <<text, how, dpath, again, datum, decoratorVars, storerVars, valueVars, arcVars>>

NextData ==
    \/ PathNew
    \/ PathFromStr
    \/ PathFromString
    \/ PathDefault
    \/ PathDeserialize
    \/ PathAgain
    \/ \E v \in Vals, by \in KeyLists : BuildDataNew(v, by)
    \/ BuildDataDefault
    \/ \E vs \in Collections, hasvalue \in BOOLEAN, by \in KeyLists :
          BuildDataDeserialize(vs, hasvalue, by)
    \/ CacheRoundTrip

SpecData == InitData /\ [][NextData]_vars

\* ------------------------------------------- a DataStorer used on its own
\* the Data values given to create: two paths, NumVals values each, and
\* Data::default()
StorerData ==
    { DataNew(p, v, None) : p \in { <<"a">>, <<"b">> }, v \in Vals } \cup {DataDefault}

\* the path strings given to get: the paths of the records (the empty path of
\* Data::default() among them), and one that is not normalized
StorerPaths == { DataPathOf(d) : d \in StorerData } \cup { <<"a">> }

\* a storer of either kind over an empty backend
InitStorer ==
    /\ kind \in {"mongo", "redact"}
    /\ docs = <<>>
    /\ latest = [p \in StorerPaths |-> NoData]
    /\ got = NoGot
    /\ nops = 0
    /\ DataIdle
    /\ DecoratorIdle
    /\ ValueIdle
    /\ ArcIdle

\* a create has returned r for the Data d and left the records ds
Created(d, r, ds) ==
    /\ nops < MaxOps
    /\ nops' = nops + 1
    /\ docs' = ds
    /\ latest' = IF r.ok /\ r.b THEN [latest EXCEPT ![DataPathOf(d)] = d] ELSE latest
    /\ got' = NoGot
    /\ UNCHANGED <<kind, decoratorVars, dataVars, valueVars, arcVars>>

\* a get of the path p has returned r
Got(p, r, fail) ==
    /\ nops < MaxOps
    /\ nops' = nops + 1
    /\ got' = [path |-> p, ret |-> r, failed |-> fail]
    /\ UNCHANGED <<kind, docs, latest, decoratorVars, dataVars, valueVars, arcVars>>

\* MongoDataStorer::create(d)
MongoCreateOp(d, fail) ==
    /\ kind = "mongo"
    /\ Created(d, MongoCreate(docs, d, fail), MongoCreateDocs(docs, d, fail))

\* MongoDataStorer::get(p)
MongoGetOp(p, fail) ==
    /\ kind = "mongo"
    /\ Got(p, MongoGet(docs, p, fail), fail)

\* RedactDataStorer::create(d)
RedactCreateOp(d, fail, status) ==
    /\ kind = "redact"
    /\ Created(d, RedactCreate(docs, d, fail, status),
               RedactCreateDocs(docs, d, fail, status))

\* RedactDataStorer::get(p)
RedactGetOp(p, fail) ==
    /\ kind = "redact"
    /\ Got(p, RedactGet(docs, p, fail), fail)

NextStorer ==
    \/ \E d \in StorerData, fail \in BOOLEAN : MongoCreateOp(d, fail)
    \/ \E p \in StorerPaths, fail \in BOOLEAN : MongoGetOp(p, fail)
    \/ \E d \in StorerData, fail \in BOOLEAN, status \in {"success", "error"} :
          RedactCreateOp(d, fail, status)
    \/ \E p \in StorerPaths, fail \in BOOLEAN : RedactGetOp(p, fail)

SpecStorer == InitStorer /\ [][NextStorer]_vars

\* ------------------------------------------ a DataCacher used on its own
\* a RedisDataCacher over an empty cache server
InitCacher ==
    /\ kind = "redis"
    /\ docs = <<>>
    /\ latest = <<>>
    /\ got = NoGot
    /\ nops = 0
    /\ DataIdle
    /\ DecoratorIdle
    /\ ValueIdle
    /\ ArcIdle

\* one more operation has been made on the cacher
CacherOp ==
    /\ kind = "redis"
    /\ nops < MaxOps
    /\ nops' = nops + 1
    /\ UNCHANGED <<kind, docs, latest, dataVars, valueVars, arcVars>>
    /\ UNCHANGED <<store, pc, op, path, value, res, log, result, raw, kept>>

\* RedisDataCacher::set(k, d)
CacherSetOp(k, d, fail) ==
    /\ CacherOp
    /\ cache' = CacherSetState(cache, k, d, fail)
    /\ got' = NoGot

\* RedisDataCacher::expire(k, seconds)
CacherExpireOp(k, seconds, fail) ==
    /\ CacherOp
    /\ cache' = CacherExpireState(cache, k, seconds, fail)
    /\ got' = NoGot

\* RedisDataCacher::get(k): got also keeps whether the server held the key
\* when the get was made
CacherGetOp(k, fail) ==
    /\ CacherOp
    /\ got' = [path |-> k, ret |-> CacherGet(cache, k, fail), failed |-> fail,
               present |-> cache[k] # NoEntry]
    /\ UNCHANGED cache

NextCacher ==
    \/ \E k \in Keys, d \in DataSet, fail \in BOOLEAN : CacherSetOp(k, d, fail)
    \/ \E k \in Keys, seconds \in 1 .. DefaultExp, fail \in BOOLEAN :
          CacherExpireOp(k, seconds, fail)
    \/ \E k \in Keys, fail \in BOOLEAN : CacherGetOp(k, fail)
    \/ Tick

SpecCacher == InitCacher /\ [][NextCacher]_vars

\* ------------------------------------------------- rendering DataValues
\* the DataValueCollections callers hold
ValueCollections == UNION { [1 .. n -> DataValues] : n \in 0 .. MaxValues }

\* a caller holding a DataValueCollection and one DataValue, the first of the
\* collection or DataValue::default()
InitValue ==
    /\ coll \in ValueCollections
    /\ dvalue = (IF coll = <<>> THEN DataValueDefault ELSE coll[1])
    /\ shown = ShownError
    /\ parsed = <<>>
    /\ phase = "value"
    /\ DataIdle
    /\ DecoratorIdle
    /\ StorerIdle
    /\ ArcIdle

\* dvalue.to_string()
RenderValue ==
    /\ phase = "value"
    /\ phase' = "text"
    /\ shown' = DataValueToString(dvalue)
    /\ UNCHANGED <<dvalue, coll, parsed, decoratorVars, dataVars, storerVars, arcVars>>

\* the caller has turned the rendered text into the DataValue dv
Parsed(dv) ==
    /\ phase = "text"
    /\ shown.ok
    /\ phase' = "parsed"
    /\ parsed' = dv
    /\ UNCHANGED <<dvalue, coll, shown, decoratorVars, dataVars, storerVars, arcVars>>

\* DataValue::from(&str) of the rendered text
ParseFromStr == Parsed(DataValueFromStr(shown.s))

\* DataValue::from(String) of the rendered text
ParseFromString == Parsed(DataValueFromString(shown.s))

\* coll.to_string()
RenderCollection ==
    /\ phase = "value"
    /\ phase' = "collection"
    /\ shown' = DataValueCollectionToString(coll)
    /\ UNCHANGED <<dvalue, coll, parsed, decoratorVars, dataVars, storerVars, arcVars>>

\* to_string() of a Data that holds the values coll
RenderData(by) ==
    /\ phase = "value"
    /\ phase' = "data"
    /\ shown' = DataToString([path |-> DataPathDefault, value |-> coll, encryptedby |-> by])
    /\ UNCHANGED <<dvalue, coll, parsed, decoratorVars, dataVars, storerVars, arcVars>>

NextValue ==
    \/ RenderValue
    \/ ParseFromStr
    \/ ParseFromString
    \/ RenderCollection
    \/ \E by \in KeyLists : RenderData(by)

SpecValue == InitValue /\ [][NextValue]_vars

\* ------------------------------------------- Arc-wrapped storer and cacher
\* one call: the operation, its arguments and what it returned
Call(name, args, ret) == [op |-> name, args |-> args, ret |-> ret]

\* a call through d Arcs that every Arc passes on twice
RECURSIVE ArcDerefTwice(_, _)
ArcDerefTwice(d, call) ==
    IF d = 0 THEN <<call>> ELSE ArcDerefTwice(d - 1, call) \o ArcDerefTwice(d - 1, call)

\* self.deref().op(args).await through d Arcs: the calls the wrapped object
\* receives when call is made on the outermost Arc
RECURSIVE ArcDeref(_, _)
ArcDeref(d, call) ==
    IF d = 0 THEN <<call>> ELSE ArcDeref(d - 1, call)

\* the texts a FetchCacher stores
FetchTexts == { <<>>, <<"v">> }

\* Result<(), _>, Result<String, _> and Result<bool, _> of a FetchCacher
FetchOk(s, b) == [ok |-> TRUE, s |-> s, b |-> b]
FetchErr == [ok |-> FALSE, s |-> <<>>, b |-> FALSE]

\* nothing has been returned
NoReturn == [ok |-> FALSE, s |-> <<"none">>, b |-> FALSE]

\* what a DataStorer's get can return
StorerGetReturns ==
    { Ok(d, TRUE) : d \in StorerData } \cup { StorageErr("NotFound"), StorageErr("InternalError") }

\* what a DataStorer's create can return
StorerCreateReturns ==
    { Ok(NoData, TRUE), Ok(NoData, FALSE), StorageErr("InternalError") }

\* a storer or a cacher wrapped in one Arc or more
InitArc ==
    /\ depth \in 1 .. MaxArcs
    /\ called = <<>>
    /\ inner = <<>>
    /\ returned = NoReturn
    /\ DataIdle
    /\ DecoratorIdle
    /\ StorerIdle
    /\ ValueIdle

\* the call was made on the outermost Arc and passed on by deref
Passed(call) ==
    /\ called = <<>>
    /\ called' = <<call.op, call.args>>
    /\ inner' = ArcDeref(depth, call)
    /\ returned' = call.ret
    /\ UNCHANGED <<depth, decoratorVars, dataVars, storerVars, valueVars>>

\* DataStorer for Arc<U>: get
ArcStorerGet(p, r) == Passed(Call("get", <<p>>, r))

\* DataStorer for Arc<U>: create
ArcStorerCreate(d, r) == Passed(Call("create", <<d>>, r))

\* FetchCacher for Arc<U>: set
ArcCacherSet(k, v, r) == Passed(Call("set", <<k, v>>, r))

\* FetchCacher for Arc<U>: get
ArcCacherGet(k, r) == Passed(Call("get", <<k>>, r))

\* FetchCacher for Arc<U>: exists, written self.exists().set(key).await: the
\* wrapped object's exists(key) is not called; the set is made with the key
\* alone on whatever exists() without a key stands for, which is the wrapped
\* object (reached) or not
ArcCacherExists(k, r, reached) ==
    /\ called = <<>>
    /\ called' = <<"exists", <<k>>>>
    /\ inner' = IF reached THEN <<Call("set", <<k>>, r)>> ELSE <<>>
    /\ returned' = IF reached THEN r ELSE NoReturn
    /\ UNCHANGED <<depth, decoratorVars, dataVars, storerVars, valueVars>>

\* FetchCacher for Arc<U>: expire
ArcCacherExpire(k, seconds, r) == Passed(Call("expire", <<k, seconds>>, r))

NextArc ==
    \/ \E p \in StorerPaths, r \in StorerGetReturns : ArcStorerGet(p, r)
    \/ \E d \in StorerData, r \in StorerCreateReturns : ArcStorerCreate(d, r)
    \/ \E k \in Keys, v \in FetchTexts, r \in {FetchOk(<<>>, FALSE), FetchErr} :
          ArcCacherSet(k, v, r)
    \/ \E k \in Keys, r \in {FetchOk(v, FALSE) : v \in FetchTexts} \cup {FetchErr} :
          ArcCacherGet(k, r)
    \/ \E k \in Keys, r \in {FetchOk(<<>>, FALSE), FetchErr}, reached \in BOOLEAN :
          ArcCacherExists(k, r, reached)
    \/ \E k \in Keys, seconds \in 1 .. DefaultExp,
          r \in {FetchOk(<<>>, b) : b \in BOOLEAN} \cup {FetchErr} :
          ArcCacherExpire(k, seconds, r)

SpecArc == InitArc /\ [][NextArc]_vars

\* ------------------------------------ CachedDataStorer over a mock storer
\* the values a caller hands to create: built by Data::new, or Data::default()
MockData == DataSet \cup {DataDefault}

\* the keys a cacher can be asked for, which are the paths a caller gives to
\* get: the path strings and the path of every Data handed to create
MockKeys == Keys \cup { DataPathOf(d) : d \in MockData }

\* what the mock storer's get is set up to return, whatever path it is given
MockGetReturns ==
    { Ok(d, TRUE) : d \in DataSet } \cup { StorageErr("NotFound"), StorageErr("InternalError") }

\* what the mock storer's create is set up to return
MockCreateReturns ==
    { Ok(NoData, TRUE), Ok(NoData, FALSE), StorageErr("InternalError") }

\* a CachedDataStorer over a mock storer and an empty cache
InitMock ==
    /\ store = [k \in Keys |-> NoData]
    /\ cache = [k \in MockKeys |-> NoEntry]
    /\ pc = [c \in Calls |-> "idle"]
    /\ op = [c \in Calls |-> "none"]
    /\ path = [c \in Calls |-> <<>>]
    /\ value = [c \in Calls |-> NoData]
    /\ res = [c \in Calls |-> NoData]
    /\ log = [c \in Calls |-> <<>>]
    /\ result = [c \in Calls |-> NoResult]
    /\ raw = NoRaw
    /\ kept = NoKept
    /\ DataIdle
    /\ StorerIdle
    /\ ValueIdle
    /\ ArcIdle

\* get, line 74 over the mock storer
MockStorerGet(c, r) == GetStorerGetReturned(c, r)

\* create, line 81 over the mock storer, which keeps no records
MockStorerCreate(c, d, r) == CreateStorerCreateReturned(c, d, r, store)

NextMock ==
    \/ \E c \in Calls, p \in MockKeys, fail \in BOOLEAN : GetExists(c, p, fail)
    \/ \E c \in Calls, fail \in BOOLEAN : GetExpire(c, fail)
    \/ \E c \in Calls, fail \in BOOLEAN : GetCacherGet(c, fail)
    \/ \E c \in Calls, r \in MockGetReturns : MockStorerGet(c, r)
    \/ \E c \in Calls, fail \in BOOLEAN : GetCacherSet(c, fail)
    \/ \E c \in Calls, d \in MockData, r \in MockCreateReturns : MockStorerCreate(c, d, r)
    \/ \E c \in Calls, fail \in BOOLEAN : CreateCacherSet(c, fail)

SpecMock == InitMock /\ [][NextMock]_vars

\* ------------------------------------- CachedDataStorer used sequentially
\* the path arguments that are already normalized
NormalizedPaths == { p \in RawPaths : validate_path(p) = p }

\* no call is between its first await and its return
Quiet == \A c \in Calls : pc[c] \in {"idle", "done"}

\* a CachedDataStorer over an empty store and an empty cache
InitSeq == DecoratorIdle /\ DataIdle /\ StorerIdle /\ ValueIdle /\ ArcIdle

\* a get is called while no other call is running
SeqGet(c, p) == Quiet /\ GetExists(c, p, FALSE)

\* a create is called while no other call is running
SeqCreate(c, d) == Quiet /\ CreateStorerCreate(c, d, FALSE)

\* the caller drops the result of a call that returned and may call again
Forget(c) ==
    /\ pc[c] = "done"
    /\ pc' = [pc EXCEPT ![c] = "idle"]
    /\ op' = [op EXCEPT ![c] = "none"]
    /\ path' = [path EXCEPT ![c] = <<>>]
    /\ value' = [value EXCEPT ![c] = NoData]
    /\ res' = [res EXCEPT ![c] = NoData]
    /\ log' = [log EXCEPT ![c] = <<>>]
    /\ result' = [result EXCEPT ![c] = NoResult]
    /\ raw' = NoRaw
    /\ UNCHANGED <<store, cache, aside>>
    /\ UNCHANGED kept

NextSeq ==
    \/ \E c \in Calls, p \in NormalizedPaths : SeqGet(c, p)
    \/ \E c \in Calls : GetExpire(c, FALSE)
    \/ \E c \in Calls : GetCacherGet(c, FALSE)
    \/ \E c \in Calls : GetStorerGet(c, FALSE)
    \/ \E c \in Calls : GetCacherSet(c, FALSE)
    \/ \E c \in Calls, d \in DataSet : SeqCreate(c, d)
    \/ \E c \in Calls : CreateCacherSet(c, FALSE)
    \/ \E c \in Calls : Forget(c)
    \/ Tick

SpecSeq == InitSeq /\ [][NextSeq]_vars

\* ------------------------------------------------------ reading the log
\* positions in the log of call c of the collaborator operation `name`
Idx(c, name) == { i \in DOMAIN log[c] : log[c][i].call = name }

\* how often call c invoked the collaborator operation `name`
Count(c, name) == Cardinality(Idx(c, name))

\* call c is a get whose exists returned Ok(b)
ExistsReturned(c, b) ==
    /\ op[c] = "get"
    /\ log[c] # <<>>
    /\ log[c][1].call = "cacher.exists"
    /\ log[c][1].ret.ok
    /\ log[c][1].ret.b = b

\* call c made the collaborator call `name` and it failed
Failed(c, name) == \E i \in Idx(c, name) : ~log[c][i].ret.ok

\* call c made the collaborator call `name` and it succeeded
Succeeded(c, name) == \E i \in Idx(c, name) : log[c][i].ret.ok

\* ------------------------------------------------------------------ C1
\* C1 as stated: a finished get whose exists returned true called the
\* cacher's expire exactly once and the cacher's get exactly once, and
\* called neither the storer's get nor the cacher's set.
C1_HitCallsAsStated ==
    \A c \in Calls :
        (pc[c] = "done" /\ ExistsReturned(c, TRUE)) =>
            /\ Count(c, "cacher.expire") = 1
            /\ Count(c, "cacher.get") = 1
            /\ Count(c, "storer.get") = 0
            /\ Count(c, "cacher.set") = 0

\* C1 amended: a finished get whose exists returned true called the cacher's
\* expire exactly once and, unless that expire failed, the cacher's get
\* exactly once (after a failed expire: not at all); it called neither the
\* storer's get nor the cacher's set.
C1_HitCalls ==
    \A c \in Calls :
        (pc[c] = "done" /\ ExistsReturned(c, TRUE)) =>
            /\ Count(c, "cacher.expire") = 1
            /\ Count(c, "cacher.get") = (IF Failed(c, "cacher.expire") THEN 0 ELSE 1)
            /\ Count(c, "storer.get") = 0
            /\ Count(c, "cacher.set") = 0

\* a get that hit the cache, refreshed the entry and returned the cached Data
C1_Witness ==
    \E c \in Calls :
        /\ pc[c] = "done"
        /\ ExistsReturned(c, TRUE)
        /\ Succeeded(c, "cacher.expire")
        /\ Succeeded(c, "cacher.get")
        /\ result[c].ok

\* ------------------------------------------------------------------ C2
\* the Data the storer's get returned to call c
Fetched(c) == log[c][CHOOSE i \in Idx(c, "storer.get") : TRUE].ret.val

\* call c is a get that missed the cache and read the store successfully
MissFetched(c) == ExistsReturned(c, FALSE) /\ Succeeded(c, "storer.get")

\* the collaborator calls of a miss: one storer get, then one cacher set with
\* the fetched value, no expire and no cacher get
MissCalls(c) ==
    /\ Count(c, "storer.get") = 1
    /\ Count(c, "cacher.set") = 1
    /\ \A i \in Idx(c, "storer.get"), j \in Idx(c, "cacher.set") :
          i < j /\ log[c][j].val = log[c][i].ret.val
    /\ Count(c, "cacher.expire") = 0
    /\ Count(c, "cacher.get") = 0

\* C2 as stated: a finished get whose exists returned false and whose storer
\* get succeeded called the storer's get once, then the cacher's set once with
\* the fetched value, never expire or the cacher's get, and returned the
\* fetched value.
C2_MissCallsAsStated ==
    \A c \in Calls :
        (pc[c] = "done" /\ MissFetched(c)) =>
            /\ MissCalls(c)
            /\ result[c] = Ok(Fetched(c), TRUE)

\* C2 amended: as stated, except that the fetched value is returned only when
\* the cacher's set succeeded; when the set failed the get returns an error.
C2_MissCalls ==
    \A c \in Calls :
        (pc[c] = "done" /\ MissFetched(c)) =>
            /\ MissCalls(c)
            /\ IF Succeeded(c, "cacher.set")
               THEN result[c] = Ok(Fetched(c), TRUE)
               ELSE ~result[c].ok

\* a get that missed, fetched a record, cached it and returned it
C2_Witness ==
    \E c \in Calls :
        /\ pc[c] = "done"
        /\ MissFetched(c)
        /\ Succeeded(c, "cacher.set")
        /\ result[c].ok
        /\ result[c].val \in DataSet

\* ------------------------------------------------------------------ C3
\* C3: in every create, the cacher's set is preceded by the storer's create,
\* which returned success and was given the same value; the set is made under
\* the key data.path(); after a failed storer create there is no set.
C3_CreateOrder ==
    \A c \in Calls :
        op[c] = "create" =>
            /\ \A j \in Idx(c, "cacher.set") :
                  /\ log[c][j].val = value[c]
                  /\ log[c][j].key = DataPathOf(value[c])
                  /\ \E i \in Idx(c, "storer.create") :
                        /\ i < j
                        /\ log[c][i].ret.ok
                        /\ log[c][i].val = log[c][j].val
            /\ Failed(c, "storer.create") => Count(c, "cacher.set") = 0

\* a create that wrote the store and then the cache, and one whose store
\* write failed
C3_Witness ==
    /\ \E c \in Calls :
          /\ op[c] = "create" /\ pc[c] = "done"
          /\ Succeeded(c, "storer.create") /\ Succeeded(c, "cacher.set")
    /\ \E c \in Calls :
          /\ op[c] = "create" /\ pc[c] = "done"
          /\ Failed(c, "storer.create")

\* ------------------------------------------------------------------ C4
\* C4: a step of a create whose storer create failed is the whole call: it
\* leaves the cache (every key, value and ttl) as it was before the call and
\* returns the storer's error, which has storage origin.
C4_CreateFailureLeavesCache ==
    [][ \A c \in Calls :
          (op'[c] = "create" /\ log'[c] # log[c] /\ Failed(c, "storer.create")') =>
              /\ pc[c] = "idle"
              /\ pc'[c] = "done"
              /\ cache' = cache
              /\ result'[c] = log'[c][1].ret
              /\ result'[c].origin = "storage"
              /\ ~result'[c].ok ]_vars

\* a create whose store write failed while the cache held an entry
C4_Witness ==
    \E c \in Calls :
        /\ op[c] = "create" /\ pc[c] = "done"
        /\ Failed(c, "storer.create")
        /\ result[c].origin = "storage"
        /\ \E k \in Keys : cache[k] # NoEntry

\* ------------------------------------------------------------------ C5
\* the record at the path of d is d, or what another call's successful storer
\* create wrote there
HoldsWrite(c, d) ==
    \/ store[DataPathOf(d)] = d
    \/ \E c2 \in Calls \ {c} : \E i \in Idx(c2, "storer.create") :
          /\ log[c2][i].ret.ok
          /\ log[c2][i].val = store[DataPathOf(d)]

\* C5: a create whose store write succeeded and whose cacher set failed has
\* returned an error of cache origin, and the store still holds the record
\* written at data.path() (unless a concurrent create replaced it).
C5_CacheFailureSurfaced ==
    \A c \in Calls :
        (pc[c] = "done" /\ op[c] = "create"
            /\ Succeeded(c, "storer.create") /\ Failed(c, "cacher.set")) =>
            /\ ~result[c].ok
            /\ result[c].origin = "cache"
            /\ store[DataPathOf(value[c])] # NoData
            /\ HoldsWrite(c, value[c])

\* a create that failed on the cache while the store holds its record
C5_Witness ==
    \E c \in Calls :
        /\ pc[c] = "done" /\ op[c] = "create"
        /\ Succeeded(c, "storer.create") /\ Failed(c, "cacher.set")
        /\ store[DataPathOf(value[c])] = value[c]
        /\ cache[DataPathOf(value[c])] = NoEntry

\* ------------------------------------------------------------------ C6
\* C6: a get whose exists returned true and whose expire or cacher get failed
\* has returned an error of cache origin and never called the storer's get.
C6_HitFailureNoFallback ==
    \A c \in Calls :
        (pc[c] = "done" /\ ExistsReturned(c, TRUE)
            /\ (Failed(c, "cacher.expire") \/ Failed(c, "cacher.get"))) =>
            /\ ~result[c].ok
            /\ result[c].origin = "cache"
            /\ Count(c, "storer.get") = 0

\* a hit whose expire failed and a hit whose cacher get failed, while the
\* store could have served the path
C6_Witness ==
    /\ \E c \in Calls :
          /\ pc[c] = "done" /\ ExistsReturned(c, TRUE)
          /\ Failed(c, "cacher.expire")
          /\ store[path[c]] # NoData
    /\ \E c \in Calls :
          /\ pc[c] = "done" /\ ExistsReturned(c, TRUE)
          /\ Failed(c, "cacher.get")

\* ------------------------------------------------------------------ C7
\* C7: the step of a miss in which the storer's get fails with NotFound or
\* InternalError returns that error, of the same kind and with storage
\* origin, makes no cacher set and leaves the cache as it was.
C7_MissFailurePropagated ==
    [][ \A c \in Calls :
          (log'[c] # log[c] /\ ExistsReturned(c, FALSE)' /\ Failed(c, "storer.get")') =>
              LET e == log'[c][CHOOSE i \in Idx(c, "storer.get")' : TRUE].ret
              IN  /\ pc'[c] = "done"
                  /\ e.kind \in {"NotFound", "InternalError"}
                  /\ result'[c] = StorageErr(e.kind)
                  /\ Count(c, "cacher.set")' = 0
                  /\ cache' = cache ]_vars

\* a miss answered NotFound and a miss answered InternalError
C7_Witness ==
    /\ \E c \in Calls :
          /\ pc[c] = "done" /\ ExistsReturned(c, FALSE)
          /\ result[c] = StorageErr("NotFound")
    /\ \E c \in Calls :
          /\ pc[c] = "done" /\ ExistsReturned(c, FALSE)
          /\ result[c] = StorageErr("InternalError")

\* ------------------------------------------------------------------ C8
\* C8: the step in which a get that missed and fetched a record returns is
\* the completion of the cacher's set of the fetched value: when the set
\* succeeded the get returns the fetched value and the cache holds it under
\* the path, when the set failed the get returns an error of cache origin.
C8_MissSetBeforeReturn ==
    [][ \A c \in Calls :
          (pc[c] # "done" /\ pc'[c] = "done" /\ MissFetched(c)') =>
              LET l == log'[c]
                  last == l[Len(l)]
              IN  /\ last.call = "cacher.set"
                  /\ last.val = Fetched(c)'
                  /\ IF last.ret.ok
                     THEN /\ result'[c] = Ok(Fetched(c)', TRUE)
                          /\ cache'[path'[c]].val = Fetched(c)'
                     ELSE /\ ~result'[c].ok
                          /\ result'[c].origin = "cache"
                          /\ result'[c].val = NoData ]_vars

\* a miss that returned the value it cached and a miss whose set failed
C8_Witness ==
    /\ \E c \in Calls :
          /\ pc[c] = "done" /\ MissFetched(c) /\ Succeeded(c, "cacher.set")
          /\ result[c].ok
          /\ cache[path[c]].val = result[c].val
    /\ \E c \in Calls :
          /\ pc[c] = "done" /\ MissFetched(c) /\ Failed(c, "cacher.set")
          /\ result[c].origin = "cache"

\* ------------------------------------------------------------------ C9
\* call g is a finished get of d.path() that began right after a create(d)
\* returned success, with no step of another call and no expiry in between
ReadAfterWrite(g) == pc[g] = "done" /\ raw.g = g

\* C9 as stated: such a get returns a Data equal to d and does not read the
\* backing store.
C9_ReadAfterWriteAsStated ==
    \A g \in Calls :
        ReadAfterWrite(g) =>
            /\ result[g] = Ok(raw.d, TRUE)
            /\ Count(g, "storer.get") = 0

\* C9 with the get's own failures granted: such a get never reads the backing
\* store, and it returns a Data equal to d unless one of its cacher calls
\* fails. C9 as stated implies this. It holds for every d built by Data::new;
\* it fails for d = Data::default(), whose path "" is read back as ".".
C9_ReadAfterWrite ==
    \A g \in Calls :
        ReadAfterWrite(g) =>
            /\ Count(g, "storer.get") = 0
            /\ (\A i \in DOMAIN log[g] : log[g][i].ret.ok) =>
                  result[g] = Ok(raw.d, TRUE)

\* what the code gives: such a get never reads the backing store; when its
\* cacher calls succeed it returns d as the cache reads it back (serialized by
\* the set, deserialized by the get), and otherwise the error of the cacher
\* call that failed, with cache origin
C9_ReadAfterWriteOfTheCode ==
    \A g \in Calls :
        ReadAfterWrite(g) =>
            /\ Count(g, "storer.get") = 0
            /\ (\A i \in DOMAIN log[g] : log[g][i].ret.ok) =>
                  result[g] = Ok(from_redis_value(write_redis_args(raw.d)), TRUE)
            /\ (\E i \in DOMAIN log[g] : ~log[g][i].ret.ok) =>
                  /\ ~result[g].ok
                  /\ result[g].origin = "cache"
                  /\ result[g].kind = log[g][Len(log[g])].ret.kind

\* a get that returned the Data of the create before it
C9_Witness ==
    \E g \in Calls :
        /\ ReadAfterWrite(g)
        /\ raw.d # DataDefault
        /\ result[g] = Ok(raw.d, TRUE)
        /\ Succeeded(g, "cacher.get")

\* after create(Data::default()) returned success, get("") was served from
\* the cache with every cacher call succeeding and returned a Data whose path
\* is ".", which is not the Data created
C9_DefaultReadBack ==
    \E g \in Calls :
        /\ ReadAfterWrite(g)
        /\ raw.d = DataDefault
        /\ path[g] = <<>>
        /\ \A i \in DOMAIN log[g] : log[g][i].ret.ok
        /\ result[g].ok
        /\ result[g].val # raw.d
        /\ DataPathOf(result[g].val) = <<".">>
        /\ Count(g, "storer.get") = 0

\* ----------------------------------------------------------------- C10
\* call c is a create that has returned success
CreatedOk(c) == pc[c] = "done" /\ op[c] = "create" /\ result[c].ok

\* call c has written neither the store nor the cache
WroteNothing(c) ==
    \A i \in DOMAIN log[c] :
        log[c][i].call \in {"storer.create", "cacher.set"} => ~log[c][i].ret.ok

\* C10: after two creates to one path have both returned success (no other
\* call having written), the record in the store is the value of one of them
\* and the cache entry, while present, holds the value of one of them; the
\* two may differ.
C10_TwoWriters ==
    \A p, q \in Calls :
        (p # q /\ CreatedOk(p) /\ CreatedOk(q)
            /\ DataPathOf(value[p]) = DataPathOf(value[q])
            /\ \A o \in Calls \ {p, q} : WroteNothing(o)) =>
            LET k == DataPathOf(value[p])
            IN  /\ store[k] \in {value[p], value[q]}
                /\ cache[k] # NoEntry => cache[k].val \in {value[p], value[q]}

\* both creates have returned success, the cache holds one writer's value and
\* the store the other's
C10_Witness ==
    \E p, q \in Calls :
        /\ p # q /\ CreatedOk(p) /\ CreatedOk(q)
        /\ DataPathOf(value[p]) = DataPathOf(value[q])
        /\ \A o \in Calls \ {p, q} : WroteNothing(o)
        /\ cache[DataPathOf(value[p])].val = value[p]
        /\ store[DataPathOf(value[p])] = value[q]
        /\ value[p] # value[q]

\* ----------------------------------------------------------------- C11
\* the cache entry of key k is present and differs from the store's record
Stale(k) == cache[k] # NoEntry /\ cache[k].val # store[k]

\* C11 as stated: a get that returns successfully from a state in which the
\* cache entry of its path differs from the store's record has re-synchronized
\* them: afterwards the entry equals the store's record and the get returns
\* the store's value.
C11_NextGetResyncsAsStated ==
    [][ \A c \in Calls :
          (pc[c] # "done" /\ pc'[c] = "done" /\ op'[c] = "get"
              /\ result'[c].ok /\ Stale(path'[c])) =>
              /\ cache'[path'[c]] # NoEntry
              /\ cache'[path'[c]].val = store'[path'[c]]
              /\ result'[c].val = store'[path'[c]] ]_vars

\* the step is the successful cache write, under key k, of a get that missed
\* or of a create
CacheWriteOf(c, k) ==
    /\ pc'[c] = "done"
    /\ result'[c].ok
    /\ \/ pc[c] = "get_cacher_set" /\ path[c] = k /\ ExistsReturned(c, FALSE)
       \/ pc[c] = "create_cacher_set" /\ DataPathOf(value[c]) = k

\* C11 amended: a get that does not miss (its exists returns true or fails)
\* does not re-synchronize: none of its steps reads the store, and each leaves
\* the store, the value of every cache entry and so every difference between
\* them as they were (only the ttl is refreshed); it returns the cached value,
\* or a cache-origin error when one of its cacher calls fails. A get that
\* misses (the entry has expired) and succeeds writes the record it fetched
\* from the store into the cache and returns it. The value of an entry is
\* written by nothing but the successful cache write of a miss or of a create.
C11_HitServesCacheMissResyncs ==
    [][ /\ \A c \in Calls :
             (log'[c] # log[c] /\ op'[c] = "get") =>
                 /\ ~ExistsReturned(c, FALSE)' =>
                       /\ store' = store
                       /\ \A k \in Keys : cache'[k].val = cache[k].val
                       /\ \A k \in Keys : Stale(k)' <=> Stale(k)
                       /\ \A i \in DOMAIN log'[c] : log'[c][i].call # "storer.get"
                       /\ (pc'[c] = "done" /\ result'[c].ok) =>
                             result'[c].val = cache[path'[c]].val
                       /\ (pc'[c] = "done" /\ ~result'[c].ok) =>
                             /\ result'[c].origin = "cache"
                             /\ result'[c].val = NoData
                 /\ (ExistsReturned(c, FALSE)' /\ pc'[c] = "done" /\ result'[c].ok) =>
                       /\ cache'[path'[c]].val = Fetched(c)'
                       /\ result'[c].val = Fetched(c)'
        /\ \A k \in Keys :
             (cache'[k] # NoEntry /\ cache'[k].val # cache[k].val) =>
                 \E c \in Calls : CacheWriteOf(c, k) ]_vars

\* a get that returned a cached value differing from the store's record, the
\* two still differing afterwards
C11_Witness ==
    \E c \in Calls :
        /\ pc[c] = "done" /\ ExistsReturned(c, TRUE) /\ result[c].ok
        /\ store[path[c]] # NoData
        /\ result[c].val # store[path[c]]
        /\ Stale(path[c])
        /\ cache[path[c]].val = result[c].val

\* ----------------------------------------------------------------- C12
\* C12: under every interleaving of gets and creates, each record in the
\* store and each entry in the cache is one complete Data of the kind create
\* is given (a path, its one value), lying under its own path.
C12_WholeRecords ==
    \A k \in Keys :
        /\ store[k] # NoData => (store[k] \in DataSet /\ DataPathOf(store[k]) = k)
        /\ cache[k] # NoEntry =>
              (cache[k].val \in DataSet /\ DataPathOf(cache[k].val) = k)

\* two creates of different values to one path, both between their store
\* write and their cache write, and a get in flight or the cache filled
C12_Witness ==
    \E p, q \in Calls :
        /\ p # q
        /\ pc[p] = "create_cacher_set" /\ pc[q] = "create_cacher_set"
        /\ DataPathOf(value[p]) = DataPathOf(value[q])
        /\ value[p] # value[q]
        /\ store[DataPathOf(value[p])] \in {value[p], value[q]}

\* ----------------------------------------------------------------- C13
\* the collaborator operations of the decorator
CollaboratorOps ==
    {"cacher.exists", "cacher.expire", "cacher.get", "cacher.set",
     "storer.get", "storer.create"}

\* C13: within one get or create every collaborator operation is invoked at
\* most once, only the last call made can have failed, and a call that failed
\* ended the operation with an error.
C13_NoRetries ==
    \A c \in Calls :
        /\ \A name \in CollaboratorOps : Count(c, name) <= 1
        /\ \A i \in DOMAIN log[c] :
              ~log[c][i].ret.ok =>
                  /\ i = Len(log[c])
                  /\ pc[c] = "done"
                  /\ ~result[c].ok
                  /\ result[c].kind = log[c][i].ret.kind

\* a get that ended at a failed expire and a create that ended at a failed set
C13_Witness ==
    /\ \E c \in Calls :
          pc[c] = "done" /\ Len(log[c]) = 2 /\ Failed(c, "cacher.expire")
    /\ \E c \in Calls :
          pc[c] = "done" /\ Len(log[c]) = 2 /\ op[c] = "create" /\ Failed(c, "cacher.set")

\* ----------------------------------------------------------------- C14
\* C14: the second collaborator call of every hit is an expire on the key
\* exists was asked about, with the cacher's default expiration; the step
\* making it, when it finds the entry, leaves the entry with a ttl equal to
\* the default expiration and its value unchanged, whatever its ttl was.
C14_SlidingExpiration ==
    [][ \A c \in Calls :
          (log'[c] # log[c] /\ ExistsReturned(c, TRUE)' /\ Len(log'[c]) = 2) =>
              LET e == log'[c][2]
              IN  /\ e.call = "cacher.expire"
                  /\ e.key = log'[c][1].key
                  /\ e.secs = DefaultExp
                  /\ (e.ret.ok /\ e.ret.b) =>
                        /\ cache'[e.key].ttl = DefaultExp
                        /\ cache'[e.key].val = cache[e.key].val
                        /\ cache[e.key].ttl \in 1 .. DefaultExp ]_vars

\* a hit that has returned the cached Data with the entry's ttl at the default
C14_Witness ==
    \E c \in Calls :
        /\ pc[c] = "done" /\ ExistsReturned(c, TRUE) /\ result[c].ok
        /\ log[c][2].ret.b
        /\ cache[path[c]].ttl = DefaultExp

\* ------------------------------------------------------------ C15 .. C19
\* the constructors of a DataPath that take a string
ListedConstructors == {"DataPath::new", "From<&str>", "From<String>", "deserialize"}

\* C15: path normalization is idempotent: for every input string p,
\* DataPath::new(DataPath::new(p).to_string()) equals DataPath::new(p).
C15_NormalizeIdempotent ==
    (stage = "again" /\ how = "DataPath::new") =>
        /\ dpath = DataPathNew(text)
        /\ again = dpath

\* an input that normalization changes has been normalized twice
C15_Witness ==
    /\ stage = "again"
    /\ how = "DataPath::new"
    /\ dpath # text
    /\ Len(text) >= 2

\* the rule of normalization, by the length of the input and its two ends
ReferenceRule(p) ==
    CASE Len(p) = 0 -> <<".">>
      [] Len(p) = 1 -> IF p[1] = "." THEN <<".">> ELSE <<".", p[1], ".">>
      [] OTHER ->
            LET first == p[1] = "."
                last == p[Len(p)] = "."
            IN  CASE first /\ last -> p
                  [] ~first /\ ~last -> <<".">> \o p \o <<".">>
                  [] first /\ ~last -> p \o <<".">>
                  [] ~first /\ last -> <<".">> \o p

\* p occurs unchanged inside q, from position at on
Inside(p, q, at) ==
    /\ at + Len(p) - 1 <= Len(q)
    /\ \A i \in 1 .. Len(p) : q[at + i - 1] = p[i]

\* C16: DataPath normalization equals the reference rule for every input
\* string: empty gives "."; a single "." stays "."; any other single character
\* c gives ".c."; for two or more characters, both ends '.' keeps the input,
\* neither end '.' wraps it, only the first '.' appends a '.', only the last
\* '.' prepends a '.'; interior characters, runs of periods included, are
\* never changed or collapsed.
C16_ReferenceRule ==
    (stage = "path" /\ how = "DataPath::new") =>
        /\ dpath = ReferenceRule(text)
        /\ Inside(text, dpath, 1) \/ Inside(text, dpath, 2)

\* an input with one period at one end and a run of periods inside
C16_Witness ==
    /\ stage = "path"
    /\ how = "DataPath::new"
    /\ Len(text) >= 4
    /\ text[1] = "." /\ text[Len(text)] # "."
    /\ text[2] = "." /\ text[3] = "."
    /\ dpath = text \o <<".">>

\* s begins with a period and ends with a period
Delimited(s) == s # <<>> /\ s[1] = "." /\ s[Len(s)] = "."

\* C17: every DataPath constructed by DataPath::new, From<&str>, From<String>
\* or deserialization from a string holds a string that begins with '.' and
\* ends with '.'; consequently the path of every Data built with Data::new or
\* deserialized begins and ends with '.'.
C17_PathDelimited ==
    /\ (stage \in {"path", "again"} /\ how \in ListedConstructors) => Delimited(dpath)
    /\ (stage \in {"data", "back"}
           /\ how \in {"Data::new", "deserialize", "deserialize without value"})
          => Delimited(DataPathOf(datum))

\* a DataPath deserialized from a string with no period at either end
C17_Witness ==
    /\ stage = "path"
    /\ how = "deserialize"
    /\ text # <<>>
    /\ text[1] # "." /\ text[Len(text)] # "."
    /\ Delimited(dpath)

\* the ways of obtaining a Data that the statement of C18 names
C18_Ways == {"Data::new", "Data::default", "deserialize without value"}

\* C18 as stated: no way of obtaining a Data (Data::new, Data::default,
\* deserialization with the value field missing) yields a Data with zero
\* values.
C18_NonEmptyAsStated ==
    (stage = "data" /\ how \in C18_Ways) => Len(datum.value) > 0

\* C18: a Data built with Data::new holds exactly one DataValue, the one it
\* was given; a Data obtained from Data::default or deserialized from an
\* object whose value field is missing holds zero DataValues.
C18_ValueCount ==
    stage = "data" =>
        /\ how = "Data::new" => Len(datum.value) = 1 /\ datum.value[1] \in Vals
        /\ how \in {"Data::default", "deserialize without value"} => datum.value = <<>>

\* a Data deserialized from an object that has no value field
C18_Witness ==
    /\ stage = "data"
    /\ how = "deserialize without value"
    /\ datum.value = <<>>
    /\ datum.path # <<>>

\* C19: serialization round-trip through the cache: for every Data value d,
\* after the cacher's set(key, d) succeeds and before the entry expires or is
\* overwritten, the cacher's get(key) returns a Data equal to d (path, values
\* in order and encrypted-by list all equal).
C19_CacheRoundTrip ==
    stage = "back" => back = datum

\* the round trip restricted to the Data whose path went through a
\* constructor: Data::new and deserialized Data come back equal
C19_ValidatedRoundTrip ==
    (stage = "back" /\ how # "Data::default") => back = datum

\* ------------------------------------------------------------------ C20
\* the store holds at most one record per path
OneRecordPerPath ==
    \A i, j \in DOMAIN docs : docs[i].path = docs[j].path => i = j

\* the last operation was a get that reached the backend, of a path at which
\* a create has succeeded: it returned the Data of the most recent one
GetReturnsLatest ==
    (got # NoGot /\ ~got.failed /\ latest[got.path] # NoData)
        => got.ret = Ok(latest[got.path], TRUE)

\* C20: Storer.create upserts by path with replace semantics: after any
\* sequence of successful create calls the store holds at most one record per
\* path, and a get of a path returns the Data given to the most recent
\* successful create at that path.
C20_UpsertByPath ==
    /\ OneRecordPerPath
    /\ GetReturnsLatest

\* the last operation was a get that reached the backend, of a path at which
\* a create has succeeded: it returned the Data of the most recent one as its
\* document reads back
GetReturnsLatestReadBack ==
    (got # NoGot /\ ~got.failed /\ latest[got.path] # NoData)
        => got.ret = Ok(DataDeserialize(DataSerialize(latest[got.path]), TRUE), TRUE)

\* what holds for MongoDataStorer alone: one record per path, and a get
\* returns the Data of the most recent successful create as read back from
\* its document, which is that Data unless it is Data::default(), whose path
\* "" reads back as "."
C20_MongoUpsertByPath ==
    kind = "mongo" =>
        /\ OneRecordPerPath
        /\ GetReturnsLatestReadBack
        /\ (got # NoGot /\ ~got.failed /\ latest[got.path] \notin {NoData, DataDefault})
               => got.ret = Ok(latest[got.path], TRUE)

\* a MongoDataStorer get of "" after create(Data::default()) returned a Data
\* whose path is "."
C20_MongoDefaultReadBack ==
    /\ kind = "mongo"
    /\ got # NoGot /\ got.ret.ok
    /\ got.path = <<>>
    /\ latest[got.path] = DataDefault
    /\ DataPathOf(got.ret.val) = <<".">>

\* a MongoDataStorer get after two successful creates at one path
C20_MongoWitness ==
    /\ kind = "mongo"
    /\ Len(docs) = 1
    /\ got # NoGot /\ got.ret.ok
    /\ got.ret.val = latest[got.path]
    /\ nops = 3

\* ------------------------------------------------------------------ C21
\* a record exists at the normalized form of the path p
RecordAtNormalized(p) == find_one(docs, DataPathNew(p)) # NoData

\* C21: Storer.get(path) fails with the NotFound storage error exactly when
\* no record exists at the normalized form of path, and fails with
\* InternalError only on a transport or backend failure; this holds for
\* MongoDataStorer and for RedactDataStorer.
C21_GetErrors ==
    got # NoGot =>
        /\ got.failed => (~got.ret.ok /\ got.ret.kind = "InternalError")
        /\ (~got.ret.ok /\ got.ret.kind = "InternalError") => got.failed
        /\ ~got.failed =>
              ((~got.ret.ok /\ got.ret.kind = "NotFound") <=> ~RecordAtNormalized(got.path))

\* what does hold of get: every error has storage origin; MongoDataStorer
\* answers NotFound exactly when no record has the literal string as its path
\* and InternalError exactly when the backend fails; RedactDataStorer never
\* answers NotFound, and answers InternalError also when the service has no
\* record
C21_GetErrorsOfTheCode ==
    got # NoGot =>
        /\ ~got.ret.ok => got.ret.origin = "storage"
        /\ kind = "mongo" =>
              /\ (got.ret.kind = "InternalError") <=> got.failed
              /\ (got.ret.kind = "NotFound") <=>
                    (~got.failed /\ find_one(docs, got.path) = NoData)
        /\ kind = "redact" =>
              /\ got.ret.kind # "NotFound"
              /\ (got.ret.kind = "InternalError") <=>
                    (got.failed \/ find_one(docs, got.path) = NoData)

\* ------------------------------------------------------------------ C22
\* C22: Cacher.get(key) fails with the NotFound cache error when the key is
\* absent or its entry has expired, and with InternalError only on a
\* transport failure.
C22_CacherGetErrors ==
    (got # NoGot /\ kind = "redis") =>
        /\ (~got.failed /\ ~got.present) => (~got.ret.ok /\ got.ret.kind = "NotFound")
        /\ (~got.ret.ok /\ got.ret.kind = "InternalError") => got.failed

\* what does hold of RedisDataCacher::get: it fails exactly when the transport
\* fails or the key is absent or expired, and every failure is InternalError
C22_CacherGetErrorsOfTheCode ==
    (got # NoGot /\ kind = "redis") =>
        /\ ~got.ret.ok <=> (got.failed \/ ~got.present)
        /\ ~got.ret.ok => got.ret.kind = "InternalError"

\* ------------------------------------------------------------------ C23
\* C23: DataValue textual round-trip for unencrypted scalars: converting the
\* text of a rendered scalar back into a DataValue recovers the original
\* variant, so "true" gives Bool, "0" gives the unsigned integer variant, "-1"
\* gives the signed integer variant, "10.52" gives the float variant and "abc"
\* gives String.
C23_TextRoundTrip ==
    (phase = "parsed" /\ dvalue.tag = "Unencrypted") =>
        /\ parsed.tag = "Unencrypted"
        /\ parsed.variant = dvalue.variant
        /\ shown.s = <<"t", "r", "u", "e">> => parsed = UnencryptedBool(TRUE)
        /\ shown.s = <<"0">> => parsed = UnencryptedU64(0)
        /\ shown.s = <<"-", "1">> => parsed = UnencryptedI64(0 - 1)
        /\ shown.s = <<"1", "0", ".", "5", "2">> => parsed = UnencryptedF64(F64(FALSE, 10, <<5, 2>>))
        /\ shown.s = <<"a", "b", "c">> => parsed = UnencryptedString(<<"a", "b", "c">>)

\* what does hold of the conversion: the text of every rendered DataValue
\* becomes the String variant holding that text, which renders as the same text
C23_TextRoundTripOfTheCode ==
    phase = "parsed" =>
        /\ parsed.tag = "Unencrypted"
        /\ parsed.variant = "String"
        /\ parsed.s = shown.s
        /\ DataValueToString(parsed) = shown

\* ------------------------------------------------------------------ C24
\* the bytes of the UTF-8 encoding of a text over the letters in use
Utf8Bytes(v) ==
    [i \in DOMAIN v |->
        CASE v[i] = "e" -> 101
          [] v[i] = "h" -> 104
          [] v[i] = "l" -> 108
          [] v[i] = "o" -> 111
          [] v[i] = "v" -> 118]

\* the lower-case name of a data type
TypeName(t) ==
    CASE t = "Bool" -> <<"b", "o", "o", "l">>
      [] t = "U64" -> <<"u", "6", "4">>
      [] t = "I64" -> <<"i", "6", "4">>
      [] t = "F64" -> <<"f", "6", "4">>
      [] t = "String" -> <<"s", "t", "r", "i", "n", "g">>

\* the payload texts of the encrypted values in use
PayloadTexts == { <<"h", "e", "l", "l", "o">>, <<"v">> }

\* the text  encrypted(key: "k", type: "t", value: "v")
EncryptedText(k, t, v) ==
    <<"e", "n", "c", "r", "y", "p", "t", "e", "d", "(", "k", "e", "y", ":", " ">> \o <<"\"">> \o k \o <<"\"">>
        \o <<",", " ", "t", "y", "p", "e", ":", " ">> \o <<"\"">> \o t \o <<"\"">>
        \o <<",", " ", "v", "a", "l", "u", "e", ":", " ">> \o <<"\"">> \o v \o <<"\"">>
        \o <<")">>

\* C24: an Encrypted DataValue with key name k, data type t and a UTF-8
\* payload v renders exactly as encrypted(key: "k", type: "<lower-case type
\* name>", value: "v"), where the type name is one of bool, u64, i64, f64,
\* string.
C24_EncryptedRendering ==
    (phase = "text" /\ dvalue.tag = "Encrypted") =>
        \A v \in PayloadTexts :
            dvalue.value = Utf8Bytes(v) =>
                /\ shown.ok
                /\ shown.s = EncryptedText(dvalue.keyname, TypeName(dvalue.datatype), v)

\* the value of test_to_string_encrypted has been rendered
C24_Witness ==
    /\ phase = "text"
    /\ dvalue = Encrypted(Utf8Bytes(<<"h", "e", "l", "l", "o">>), "String", <<"s", "o", "m", "e", "k", "e", "y">>)
    /\ shown.s = <<"e", "n", "c", "r", "y", "p", "t", "e", "d", "(", "k", "e", "y", ":", " ", "\"", "s", "o", "m", "e", "k", "e", "y", "\"", ",", " ", "t", "y", "p", "e", ":", " ", "\"", "s", "t", "r", "i", "n", "g", "\"", ",", " ", "v", "a", "l", "u", "e", ":", " ", "\"", "h", "e", "l", "l", "o", "\"", ")">>

\* ------------------------------------------------------------------ C25
\* the renderings of the values of vs one after the other, built from the
\* last value backwards
RECURSIVE Joined(_)
Joined(vs) ==
    IF vs = <<>>
    THEN <<>>
    ELSE Joined(SubSeq(vs, 1, Len(vs) - 1)) \o DataValueToString(vs[Len(vs)]).s

\* every value of vs has a rendering
Renderable(vs) == \A i \in DOMAIN vs : DataValueToString(vs[i]).ok

\* C25: rendering a Data (or a DataValueCollection) yields the concatenation,
\* in sequence order and with no separator, of the rendering of each of its
\* DataValues; a collection with no values renders as the empty string.
C25_RenderConcatenates ==
    (phase \in {"collection", "data"} /\ Renderable(coll)) =>
        /\ shown.ok
        /\ shown.s = Joined(coll)
        /\ coll = <<>> => shown.s = <<>>
        /\ Len(coll) = 2 =>
              shown.s = DataValueToString(coll[1]).s \o DataValueToString(coll[2]).s

\* a Data holding two different values, one encrypted, has been rendered
C25_Witness ==
    /\ phase = "data"
    /\ Len(coll) = 2
    /\ coll[1].tag = "Unencrypted" /\ coll[1].variant = "I64"
    /\ coll[2].tag = "Encrypted"
    /\ shown.ok
    /\ Len(shown.s) > Len(DataValueToString(coll[2]).s)

\* ------------------------------------------------------------------ C26
\* the operation called on the Arc reached the wrapped object exactly once,
\* under the same name and with the same arguments, and its result came back
\* unchanged
PassedThrough ==
    /\ Len(inner) = 1
    /\ inner[1].op = called[1]
    /\ inner[1].args = called[2]
    /\ returned = inner[1].ret

\* C26: an Arc-wrapped storer or cacher behaves exactly like the wrapped
\* object: every operation called on the Arc (storer get, create; cacher set,
\* get, exists, expire) invokes the same-named operation on the underlying
\* object exactly once with the same arguments and returns its result
\* unchanged.
C26_ArcPassesThrough ==
    called # <<>> => PassedThrough

\* what does hold: every operation but the cacher's exists is passed through
C26_ArcPassesThroughButExists ==
    (called # <<>> /\ called[1] # "exists") => PassedThrough

\* ------------------------------------------------------------------ C27
\* C27: if the cacher's exists call itself fails in CachedDataStorer.get, get
\* returns an error with cache origin and makes no further call: the backing
\* storer's get is not called even though the store could have served the
\* value.
C27_ExistsFailureEndsGet ==
    \A c \in Calls :
        Failed(c, "cacher.exists") =>
            /\ pc[c] = "done"
            /\ ~result[c].ok
            /\ result[c].origin = "cache"
            /\ Len(log[c]) = 1
            /\ Count(c, "storer.get") = 0

\* a get whose exists failed while the store held a record at its path
C27_Witness ==
    \E c \in Calls :
        /\ Failed(c, "cacher.exists")
        /\ store[path[c]] # NoData
        /\ pc[c] = "done"
        /\ result[c].origin = "cache"

\* ------------------------------------------------------------------ C28
\* the expire of call c returned Ok(false)
ExpireReturnedFalse(c) ==
    \E i \in Idx(c, "cacher.expire") : log[c][i].ret.ok /\ ~log[c][i].ret.b

\* what the cacher's get returned to call c
CacherGot(c) == log[c][CHOOSE i \in Idx(c, "cacher.get") : TRUE].ret

\* C28: CachedDataStorer.get ignores the boolean returned by expire: if the
\* entry disappears after exists returned true, so that expire returns false,
\* get still calls the cacher's get and returns its outcome (a cache-origin
\* error if the entry is gone); it never falls back to the backing store in
\* the same call.
C28_ExpireBooleanIgnored ==
    \A c \in Calls :
        (ExistsReturned(c, TRUE) /\ ExpireReturnedFalse(c)) =>
            /\ Count(c, "storer.get") = 0
            /\ Count(c, "cacher.set") = 0
            /\ pc[c] \in {"get_cacher_get", "done"}
            /\ pc[c] = "done" =>
                  /\ Count(c, "cacher.get") = 1
                  /\ result[c] = (IF CacherGot(c).ok
                                  THEN CacherGot(c)
                                  ELSE FromCacheError(CacherGot(c)))
                  /\ ~result[c].ok => result[c].origin = "cache"

\* a hit whose entry expired before the expire: expire returned false, the
\* cacher's get was still called and its error returned with cache origin,
\* while the store held the record
C28_Witness ==
    \E c \in Calls :
        /\ ExistsReturned(c, TRUE)
        /\ ExpireReturnedFalse(c)
        /\ pc[c] = "done"
        /\ ~result[c].ok
        /\ result[c].origin = "cache"
        /\ store[path[c]] # NoData

\* ----------------------------------------------------------------- C29
\* what the storer's create returned to call c
StorerCreated(c) == log[c][CHOOSE i \in Idx(c, "storer.create") : TRUE].ret

\* C29: CachedDataStorer.create returns true whenever the storer's create
\* and the cacher's set both return without error, whatever boolean the
\* storer's create returned: a storer returning Ok(false) still leads to one
\* cache write under the value's path and to a true result.
C29_CreateIgnoresBoolean ==
    \A c \in Calls :
        (op[c] = "create" /\ pc[c] = "done" /\ Succeeded(c, "storer.create")) =>
            /\ Count(c, "cacher.set") = 1
            /\ \A i \in Idx(c, "cacher.set") :
                   /\ log[c][i].key = DataPathOf(value[c])
                   /\ log[c][i].val = value[c]
            /\ Succeeded(c, "cacher.set") => result[c] = Ok(NoData, TRUE)

\* a create whose storer returned Ok(false) wrote the cache and returned true
C29_Witness ==
    \E c \in Calls :
        /\ op[c] = "create"
        /\ pc[c] = "done"
        /\ Succeeded(c, "storer.create")
        /\ ~StorerCreated(c).b
        /\ Succeeded(c, "cacher.set")
        /\ result[c] = Ok(NoData, TRUE)
        /\ cache[DataPathOf(value[c])].val = value[c]
        /\ cache[DataPathOf(value[c])].ttl > 0

\* ----------------------------------------------------------------- C30
\* a finished get of call c was a miss that fetched and cached the record
MissCached(c) ==
    /\ pc[c] = "done"
    /\ MissFetched(c)
    /\ Succeeded(c, "cacher.set")

\* every cache write of a get goes under the path argument the caller gave,
\* the one exists and the storer's get were asked for
MissKeyIsArgument ==
    \A c \in Calls :
        op[c] = "get" =>
            \A i \in DOMAIN log[c] :
                log[c][i].call \in {"cacher.exists", "storer.get", "cacher.set"} =>
                    log[c][i].key = path[c]

\* every cache write of a create goes under the value's own path
CreateKeyIsDataPath ==
    \A c \in Calls :
        op[c] = "create" =>
            \A i \in Idx(c, "cacher.set") : log[c][i].key = DataPathOf(value[c])

\* after a successful miss the entry lies under the caller's argument, so that
\* the exists of a get repeated with this argument returns true
RepeatedGetHits ==
    \A c \in Calls :
        MissCached(c) =>
            /\ cache[path[c]] # NoEntry
            /\ CacherExists(cache, path[c], FALSE) = Ok(NoData, TRUE)

\* C30: on a miss the cache write uses exactly the path argument the caller
\* passed (not a normalized form, not the path of the fetched Data), whereas
\* on create it uses the value's normalized path; hence a get repeated with
\* the same argument right after a successful miss is a hit, and every key
\* written by create begins and ends with a period.
C30_CacheKeys ==
    /\ MissKeyIsArgument
    /\ CreateKeyIsDataPath
    /\ RepeatedGetHits
    /\ \A c \in Calls :
           op[c] = "create" =>
               \A i \in Idx(c, "cacher.set") : Delimited(log[c][i].key)

\* what the code gives: the keys are the ones C30 names, and a key written by
\* create is delimited by periods unless the value is Data::default(), whose
\* path is the empty string
C30_CacheKeysOfTheCode ==
    /\ MissKeyIsArgument
    /\ CreateKeyIsDataPath
    /\ RepeatedGetHits
    /\ \A c \in Calls :
           op[c] = "create" =>
               \A i \in Idx(c, "cacher.set") :
                   Delimited(log[c][i].key) <=> value[c] # DataDefault

\* a miss wrote under an argument that is neither normalized nor the path of
\* the record fetched
C30_MissKeyReached ==
    \E c \in Calls :
        /\ MissCached(c)
        /\ path[c] # validate_path(path[c])
        /\ path[c] # DataPathOf(res[c])
        /\ cache[path[c]].val = res[c]

\* a create wrote under a key that is not delimited by periods
C30_UndelimitedKeyReached ==
    \E c \in Calls :
        /\ op[c] = "create"
        /\ pc[c] = "done"
        /\ Succeeded(c, "cacher.set")
        /\ ~Delimited(DataPathOf(value[c]))
        /\ cache[DataPathOf(value[c])].val = value[c]
        /\ cache[DataPathOf(value[c])].ttl > 0

\* ----------------------------------------------------------------- C31
\* call e is a create that has returned success and whose record is the one
\* the store and the cache hold under key k
CreatedBoth(e, k) ==
    /\ op[e] = "create"
    /\ pc[e] = "done"
    /\ result[e].ok
    /\ DataPathOf(value[e]) = k
    /\ store[k] = value[e]
    /\ cache[k] # NoEntry
    /\ cache[k].val = value[e]

\* call c is a get of k that missed and read from the store, before the
\* create e wrote it, a record other than the one e was given, and that
\* makes its cache set in this step and succeeds
LateCacheSet(c, e, k) ==
    /\ op[c] = "get"
    /\ path[c] = k
    /\ pc[c] = "get_cacher_set"
    /\ pc'[c] = "done"
    /\ result'[c].ok
    /\ MissFetched(c)
    /\ res[c] # value[e]
    /\ CreatedBoth(e, k)

\* C31: a get racing with a create on the same path leaves a stale cache
\* entry: when a get has missed and read the old record, a concurrent create
\* has then written the new record to the store and to the cache, and the get
\* then performs its cache set, the cache holds the old value and the store
\* the new one once both calls have completed successfully.
C31_RaceLeavesStaleEntry ==
    [][ \A c \in Calls, e \in Calls, k \in Keys :
            LateCacheSet(c, e, k) =>
                /\ cache'[k] # NoEntry
                /\ cache'[k].val = res[c]
                /\ store'[k] = value[e]
                /\ cache'[k].val # store'[k]
                /\ result'[c] = Ok(res[c], TRUE)
                /\ pc'[e] = "done" /\ result'[e].ok ]_vars

\* both calls have completed successfully and the cache holds the record the
\* get read while the store holds the record the create wrote
C31_Witness ==
    \E c \in Calls, e \in Calls :
        /\ op[c] = "get" /\ pc[c] = "done" /\ result[c].ok
        /\ MissFetched(c)
        /\ Succeeded(c, "cacher.set")
        /\ op[e] = "create" /\ pc[e] = "done" /\ result[e].ok
        /\ DataPathOf(value[e]) = path[c]
        /\ store[path[c]] = value[e]
        /\ cache[path[c]] # NoEntry
        /\ cache[path[c]].val = res[c]
        /\ res[c] # value[e]

\* ----------------------------------------------------------------- C32
\* every entry present in the cache is equal to the record the store holds
\* at the same path
CacheAgreesWithStore ==
    \A k \in DOMAIN cache : cache[k] # NoEntry => cache[k].val = store[k]

\* C32: when decorator operations run one at a time, every path argument is
\* already normalized, no collaborator call fails and all writes go through
\* the decorator, then after any sequence of get and create calls every
\* entry present in the cache is equal to the record the backing store holds
\* at the same path.
C32_SequentialConsistency == Quiet => CacheAgreesWithStore

\* after a get that missed and a create that replaced the record, the cache
\* holds an entry and it is the store's record
C32_Witness ==
    /\ Quiet
    /\ \E c \in Calls, e \in Calls :
           /\ op[e] = "create" /\ pc[e] = "done" /\ result[e].ok
           /\ op[c] = "get" /\ pc[c] = "done" /\ result[c].ok
           /\ path[c] = DataPathOf(value[e])
           /\ result[c].val # value[e]
           /\ cache[path[c]] # NoEntry
           /\ cache[path[c]].val = value[e]
           /\ store[path[c]] = value[e]

\* ----------------------------------------------------------------- C34
\* the step is one of the get of call c
GetStepOf(c) == op'[c] = "get" /\ pc'[c] # pc[c]

\* C34: CachedDataStorer.get never modifies the backing store: in every
\* outcome (hit, miss or any failure) it calls no storer operation other than
\* at most one get, and the store's records are the same after each of its
\* steps as before.
C34_GetLeavesStore ==
    [][ \A c \in Calls :
            GetStepOf(c) =>
                /\ store' = store
                /\ Cardinality({ i \in DOMAIN log'[c] : log'[c][i].call = "storer.get" }) <= 1
                /\ \A i \in DOMAIN log'[c] :
                       log'[c][i].call \in {"cacher.exists", "cacher.expire", "cacher.get",
                                            "storer.get", "cacher.set"} ]_vars

\* a get that missed has read the record from the store, cached it and
\* returned it, and the store still holds it
C34_Witness ==
    \E c \in Calls :
        /\ pc[c] = "done"
        /\ MissFetched(c)
        /\ Count(c, "storer.get") = 1
        /\ result[c].ok
        /\ store[path[c]] = result[c].val
        /\ cache[path[c]] # NoEntry
        /\ cache[path[c]].val = result[c].val

\* ----------------------------------------------------------------- C33
\* the key of the entry a failed cache write left
KeptKey == DataPathOf(kept.rec)

\* the create of call e persists its record and fails at its cache write in
\* this step
CacheWriteFails(e) ==
    /\ op[e] = "create"
    /\ pc[e] = "create_cacher_set"
    /\ pc'[e] = "done"
    /\ ~result'[e].ok

\* call c is a get of the path of the entry left, begun after the failed
\* cache write, that returns in this step while the entry is still the one
\* left
SubsequentGetReturns(c) ==
    /\ kept.rec # NoData
    /\ c \in kept.since
    /\ op'[c] = "get"
    /\ path'[c] = KeptKey
    /\ pc[c] # "done"
    /\ pc'[c] = "done"

\* a failed cache write of a create invalidates nothing: the cache and the
\* store are as they were, after the store write that had succeeded
NoInvalidation ==
    \A e \in Calls :
        CacheWriteFails(e) =>
            /\ Succeeded(e, "storer.create")
            /\ cache' = cache
            /\ store' = store
            /\ result'[e].origin = "cache"

\* while an entry left is followed, it is present and unchanged
KeptEntryPresent ==
    kept.rec # NoData =>
        /\ cache[KeptKey] # NoEntry
        /\ cache[KeptKey].val = kept.old

\* C33 as stated: a create whose store write succeeds but whose cache write
\* fails leaves an entry already cached for that path unchanged, and until it
\* expires every subsequent get of that path returns the old cached value
\* rather than the newly persisted record.
C33_FailedWriteKeepsEntryAsStated ==
    [][ /\ NoInvalidation
        /\ KeptEntryPresent
        /\ \A c \in Calls :
               SubsequentGetReturns(c) => result'[c] = Ok(kept.old, TRUE) ]_vars

\* C33 amended: the entry is left unchanged, and until it expires or another
\* cache write replaces it every subsequent get of that path is served from
\* the cache alone: it never reads the store, and it returns the old cached
\* value rather than the newly persisted record unless one of its cacher
\* calls fails, in which case it returns that error with cache origin.
C33_FailedWriteKeepsEntry ==
    [][ /\ NoInvalidation
        /\ KeptEntryPresent
        /\ \A c \in Calls :
               SubsequentGetReturns(c) =>
                   /\ \A i \in DOMAIN log'[c] : log'[c][i].call # "storer.get"
                   /\ result'[c].ok => result'[c] = Ok(kept.old, TRUE)
                   /\ ~result'[c].ok =>
                          /\ result'[c].origin = "cache"
                          /\ \E i \in DOMAIN log'[c] : ~log'[c][i].ret.ok ]_vars

\* after a create persisted a record and failed at its cache write, a get of
\* that path begun afterwards returned the old cached value, which is not the
\* record the store holds
C33_Witness ==
    \E c \in Calls :
        /\ kept.rec # NoData
        /\ c \in kept.since
        /\ op[c] = "get"
        /\ pc[c] = "done"
        /\ path[c] = KeptKey
        /\ result[c] = Ok(kept.old, TRUE)
        /\ kept.old # kept.rec
        /\ store[KeptKey] = kept.rec
        /\ cache[KeptKey].val = kept.old

====
